---- MODULE Spec2Model ----
(***************************************************************************)
(* StudyDeck: the SM-2 scheduling engine (spaced-repetition.service.ts),   *)
(* the review recorder (card.service.ts reviewCard / resetCard), the       *)
(* session operations (study.service.ts), the deck operations and the      *)
(* session builder (deck.service.ts createDeck / updateDeck /              *)
(* getDueCards), the figures and streaks of stats.service.ts and           *)
(* study.service.ts, and the request handlers that call them, as           *)
(* concurrent requests over one shared store; and the StudyPage of the     *)
(* frontend, which sends the reviews of a study session.                   *)
(*                                                                         *)
(* Units.  An ease factor is kept in hundredths (2.5 is 250).  A quality   *)
(* as it arrives in a request is a JavaScript number; the model keeps      *)
(* twice its value ("quality2"), so that 2.5 is 5 and the integers are the *)
(* even values.  A time is a count of ticks, TicksPerDay ticks to the day. *)
(***************************************************************************)
EXTENDS Integers, Sequences, FiniteSets, TLC

VARIABLES
    decks,      \* deck table: id -> [exists, userId, parentId]
    cards,      \* card table: id -> row
    reviews,    \* cardReview table: sequence of rows, in insertion order
    sessions,   \* studySession table: id -> row
    now,        \* the clock read by new Date()
    req,        \* the requests: position (pc), arguments, locals, response
    sm2In,      \* engine harness: the input of the next calculateSM2 call
    sm2Out,     \* engine harness: the result of the last call
    sm2Trail,   \* engine harness: the calls made so far, oldest first
    page        \* the StudyPage of one browser tab: React state, calls, requests sent

vars == <<decks, cards, reviews, sessions, now, req, sm2In, sm2Out, sm2Trail, page>>

storeVars == <<decks, cards, reviews, sessions, now, req>>
engineVars == <<sm2In, sm2Out, sm2Trail>>

(***************************************************************************)
(* Bounds of the model.                                                    *)
(***************************************************************************)
MaxReq == 2          \* requests made in one behaviour
MaxInFlight == 2     \* requests between their first and last step at once
MaxTime == 1         \* last tick of the clock
MaxReps == 3         \* engine harness: largest prior repetitions
MaxInterval == 10    \* engine harness: largest prior interval
MaxEF == 290         \* engine harness: largest prior ease factor (hundredths)
MaxTrail == 3        \* engine harness: reviews in a row of one fresh card
MaxSeq == 5          \* requests made one after the other in one behaviour

(***************************************************************************)
(* Program constants.                                                      *)
(***************************************************************************)
MIN_EASE_FACTOR == 130
DEFAULT_EASE_FACTOR == 250
TicksPerDay == 2
NullTime == 0 - 1    \* lastReviewAt / endedAt: null

Max(a, b) == IF a >= b THEN a ELSE b
Min(a, b) == IF a <= b THEN a ELSE b

\* Math.round on a number given as twice its value: halves round up
\* (Math.round(2.5) = 3, Math.round(-0.5) = 0).
MathRound2(x2) == (x2 + 1) \div 2

\* z.number() tells integers from other numbers only when .int() is asked;
\* the integer qualities are the even quality2.
IsIntegerQuality(quality2) == quality2 % 2 = 0

\* setHours(0, 0, 0, 0): the start of the day of t.
StartOfDay(t) == (t \div TicksPerDay) * TicksPerDay

\* toISOString().split('T')[0], as a day number
DateOf(t) == t \div TicksPerDay

(***************************************************************************)
(* calculateSM2.                                                           *)
(***************************************************************************)
\* the clamp left out
ClampQuality_NoClamp(quality2) == MathRound2(quality2)

\* quality = Math.max(0, Math.min(5, Math.round(quality)))
ClampQuality(quality2) == Max(0, Min(5, MathRound2(quality2)))

\* 0.1 - (5 - q) * (0.08 + (5 - q) * 0.02), in hundredths
EaseDelta(q) == 10 - (5 - q) * (8 + (5 - q) * 2)

\* the floor left out
NewEaseFactor_NoFloor(easeFactor, q) == easeFactor + EaseDelta(q)

\* the ease factor left as it is when the review fails
NewEaseFactor_OnlyOnSuccess(easeFactor, q) ==
    IF q < 3 THEN easeFactor ELSE Max(MIN_EASE_FACTOR, easeFactor + EaseDelta(q))

\* Math.max(MIN_EASE_FACTOR, easeFactor + ...), in hundredths.  The double
\* the code holds differs from this decimal by less than 1e-15.
NewEaseFactor(easeFactor, q) == Max(MIN_EASE_FACTOR, easeFactor + EaseDelta(q))

\* Math.round(interval * newEaseFactor) is taken on doubles, and newEaseFactor
\* is the unrounded sum: where the decimal product ends in .5 the double
\* product can fall just below it, and Math.round then gives one less.
\* These are the <<interval, easeFactor, q>> (prior ease factor, clamped
\* quality) with interval <= 60 and easeFactor <= 330 where it does.
FloatTieDown ==
    { <<5, 284, 3>>, <<10, 259, 3>>, <<10, 309, 3>>, <<15, 284, 3>>,
      <<25, 226, 4>>, <<25, 228, 3>>, <<25, 230, 4>>, <<25, 232, 3>>,
      <<25, 236, 3>>, <<25, 240, 3>>, <<25, 244, 3>>, <<25, 276, 3>>,
      <<25, 280, 3>>, <<25, 328, 3>>, <<30, 195, 5>>, <<30, 205, 4>>,
      <<30, 219, 3>>, <<30, 259, 3>>, <<30, 309, 3>>, <<35, 284, 3>>,
      <<45, 230, 4>>, <<45, 244, 3>>, <<45, 284, 3>>, <<50, 191, 5>>,
      <<50, 193, 5>>, <<50, 195, 5>>, <<50, 197, 5>>, <<50, 201, 4>>,
      <<50, 203, 4>>, <<50, 205, 4>>, <<50, 207, 4>>, <<50, 215, 3>>,
      <<50, 217, 3>>, <<50, 219, 3>>, <<50, 221, 3>>, <<50, 251, 3>>,
      <<50, 251, 4>>, <<50, 253, 3>>, <<50, 253, 4>>, <<50, 255, 3>>,
      <<50, 255, 4>>, <<50, 257, 3>>, <<50, 259, 3>>, <<50, 261, 3>>,
      <<50, 263, 3>>, <<50, 265, 3>>, <<50, 267, 3>>, <<50, 269, 3>>,
      <<50, 301, 3>>, <<50, 303, 3>>, <<50, 305, 3>>, <<55, 230, 4>>,
      <<55, 244, 3>>, <<55, 284, 3>> }

\* the interval multiplied by the ease factor before its update
RoundIntervalTimesEF_OldEF(interval, easeFactor, q) ==
    (interval * easeFactor + 50) \div 100

\* Math.round(interval * newEaseFactor)
RoundIntervalTimesEF(interval, easeFactor, q) ==
    LET exact == (interval * NewEaseFactor(easeFactor, q) + 50) \div 100
    IN  IF <<interval, easeFactor, q>> \in FloatTieDown THEN exact - 1 ELSE exact

\* Math.round(newEaseFactor * 100) / 100: the hundredths are kept, the
\* double's error is dropped.
RoundEaseFactor(ef) == ef

SM2Result(quality2, repetitions, easeFactor, interval, today) ==
    LET quality == ClampQuality(quality2)
        newEaseFactor == NewEaseFactor(easeFactor, quality)
        newRepetitions == IF quality < 3 THEN 0 ELSE repetitions + 1
        newInterval ==
            IF quality < 3 THEN 1
            ELSE IF newRepetitions = 1 THEN 1
            ELSE IF newRepetitions = 2 THEN 6
            ELSE RoundIntervalTimesEF(interval, easeFactor, quality)
    IN  [ repetitions |-> newRepetitions,
          easeFactor |-> RoundEaseFactor(newEaseFactor),
          interval |-> newInterval,
          nextReviewDate |-> StartOfDay(today) + newInterval * TicksPerDay ]

\* a failed review that keeps the repetitions it found
calculateSM2_KeepsRepetitions(quality2, repetitions, easeFactor, interval, today) ==
    LET r == SM2Result(quality2, repetitions, easeFactor, interval, today)
    IN  IF ClampQuality(quality2) < 3 THEN [ r EXCEPT !.repetitions = repetitions ] ELSE r

\* a failed review that keeps the interval it found
calculateSM2_KeepsInterval(quality2, repetitions, easeFactor, interval, today) ==
    LET r == SM2Result(quality2, repetitions, easeFactor, interval, today)
    IN  IF ClampQuality(quality2) < 3
        THEN [ r EXCEPT !.interval = interval,
                        !.nextReviewDate = StartOfDay(today) + interval * TicksPerDay ]
        ELSE r

calculateSM2(quality2, repetitions, easeFactor, interval, today) ==
    SM2Result(quality2, repetitions, easeFactor, interval, today)

(***************************************************************************)
(* The store and the requests.                                             *)
(***************************************************************************)
UserIds == {"u1", "u2"}
DeckIds == {"d0", "d1", "d2", "d3", "d4"}      \* d0 is no deck of the store
CardIds == {"c0", "c1", "c2", "c3", "c4", "c5", "c6"}   \* c0 is no card of the store
SessionIds == {"s1", "s2"}         \* s2 exists once createSession made it
ReqIds == 1..Max(MaxReq, MaxSeq)
ConcurrentReqs == 1..MaxReq        \* the requests that overlap one another

NoDeck == "none"                   \* parentId: null

NoCard ==
    [ exists |-> FALSE, deckId |-> "d0", easeFactor |-> 0, interval |-> 0,
      repetitions |-> 0, nextReviewAt |-> 0, lastReviewAt |-> NullTime,
      createdAt |-> 0 ]

NoResult == [ repetitions |-> 0, easeFactor |-> 0, interval |-> 0, nextReviewDate |-> 0 ]

NoSession ==
    [ exists |-> FALSE, userId |-> "u1", deckId |-> "d0",
      startedAt |-> 0, endedAt |-> NullTime ]

\* createCard's data: the scheduling defaults of a new card
NewCard(deckId, t) ==
    [ exists |-> TRUE, deckId |-> deckId, easeFactor |-> DEFAULT_EASE_FACTOR,
      interval |-> 0, repetitions |-> 0, nextReviewAt |-> t, lastReviewAt |-> NullTime,
      createdAt |-> t ]

\* the locals and the answer of the two getUserStats, before any query
NoStats ==
    [ now |-> 0, startOfToday |-> 0,
      totalDecks |-> 0, totalCards |-> 0, cardsDueToday |-> 0,
      cardsStudiedToday |-> 0, cardsStudiedThisWeek |-> 0, totalReviews |-> 0,
      successfulReviews |-> 0, averageRetention |-> 0,
      currentStreak |-> 0, longestStreak |-> 0,
      i |-> 0, activity |-> <<>>, recentActivity |-> <<>>, studyTimeToday |-> 0,
      todayReviews |-> 0, dueToday |-> 0, streak |-> 0 ]

IdleReq ==
    [ pc |-> "idle", op |-> "none", userId |-> "u1", cardId |-> "c0",
      deckId |-> "d0", sessionId |-> "s1", quality2 |-> 0,
      card |-> NoCard, sm2Result |-> NoResult, response |-> "none",
      limit |-> 0, includeSubDecks |-> TRUE, endOfDay |-> 0, deckIds |-> {},
      newCards |-> <<>>, dueCards |-> <<>>, data |-> <<>>,
      parentId |-> "none", stats |-> NoStats ]

NoInput == [ quality2 |-> 0, repetitions |-> 0, easeFactor |-> 0, interval |-> 0 ]

\* useState's initial values of StudyPage, with nothing sent yet
NoPage ==
    [ isLoading |-> TRUE, dueCards |-> <<>>, currentIndex |-> 0, isFlipped |-> FALSE,
      session |-> "none", calls |-> <<>>, sent |-> <<>> ]

Init ==
    /\ decks = [ d \in DeckIds |->
                   IF d = "d1" THEN [ exists |-> TRUE, userId |-> "u1", parentId |-> NoDeck ]
                   ELSE IF d = "d2" THEN [ exists |-> TRUE, userId |-> "u2", parentId |-> NoDeck ]
                   ELSE [ exists |-> FALSE, userId |-> "u1", parentId |-> NoDeck ] ]
    /\ cards = [ c \in CardIds |->
                   IF c = "c1" THEN NewCard("d1", 0)
                   ELSE IF c = "c2" THEN NewCard("d2", 0)
                   ELSE NoCard ]
    /\ reviews = <<>>
    /\ sessions = [ s \in SessionIds |->
                      IF s = "s1"
                      THEN [ exists |-> TRUE, userId |-> "u1", deckId |-> "d1",
                             startedAt |-> 0, endedAt |-> NullTime ]
                      ELSE NoSession ]
    /\ now = 0
    /\ req = [ p \in ReqIds |-> IdleReq ]
    /\ sm2In = NoInput
    /\ sm2Out = NoResult
    /\ sm2Trail = <<>>
    /\ page = NoPage

\* the owner left out of the where clause
FindCard_AnyOwner(userId, cardId) ==
    IF cards[cardId].exists THEN cards[cardId] ELSE NoCard

\* prisma.card.findFirst({ where: { id: cardId, deck: { userId } } })
FindCard(userId, cardId) ==
    IF cards[cardId].exists /\ decks[cards[cardId].deckId].userId = userId
    THEN cards[cardId] ELSE NoCard

\* prisma.deck.findFirst({ where: { id: deckId, userId } })
DeckFound(userId, deckId) == decks[deckId].exists /\ decks[deckId].userId = userId

\* prisma.studySession.findFirst({ where: { id: sessionId, userId } })
SessionFound(userId, sessionId) ==
    sessions[sessionId].exists /\ sessions[sessionId].userId = userId

InFlight == { p \in ReqIds : req[p].pc \notin {"idle", "done"} }

\* a request arrives: requests are numbered in the order they arrive
CanStart(p) ==
    /\ req[p].pc = "idle"
    /\ \A r \in ReqIds : r < p => req[r].pc # "idle"
    /\ Cardinality(InFlight) < MaxInFlight

Respond(p, response) == [ req EXCEPT ![p].pc = "done", ![p].response = response ]

Tick ==
    /\ now < MaxTime
    /\ now' = now + 1
    /\ UNCHANGED <<decks, cards, reviews, sessions, req, engineVars, page>>

(***************************************************************************)
(* POST /api/cards/:id/review: reviewCardSchema.parse, then reviewCard.     *)
(***************************************************************************)
\* z.object({ quality: z.number().min(0).max(5), sessionId: z.string().min(1) })
reviewCardSchema(quality2) == quality2 >= 0 /\ quality2 <= 10

StartReview(p, u, c, s, q2) ==
    /\ CanStart(p)
    /\ req' = [ req EXCEPT ![p] =
                  [ IdleReq EXCEPT !.op = "reviewCard", !.userId = u, !.cardId = c,
                                   !.sessionId = s, !.quality2 = q2,
                                   !.pc = IF reviewCardSchema(q2) THEN "findCard" ELSE "done",
                                   !.response = IF reviewCardSchema(q2) THEN "none"
                                                ELSE "ValidationFailed" ] ]
    /\ UNCHANGED <<decks, cards, reviews, sessions, now, engineVars, page>>

\* prisma.card.findFirst, the not-found throw, and calculateSM2 on the row read
ReviewFind(p) ==
    /\ req[p].op = "reviewCard" /\ req[p].pc = "findCard"
    /\ LET card == FindCard(req[p].userId, req[p].cardId)
       IN  IF ~card.exists
           THEN req' = Respond(p, "NotFound")
           ELSE req' = [ req EXCEPT ![p].pc = "createReview", ![p].card = card,
                           ![p].sm2Result =
                               calculateSM2(req[p].quality2, card.repetitions,
                                            card.easeFactor, card.interval, now) ]
    /\ UNCHANGED <<decks, cards, reviews, sessions, now, engineVars, page>>

\* The cardReview table takes an integer quality and an existing session.
CardReviewAccepts(quality2, sessionId) ==
    IF ~IsIntegerQuality(quality2) THEN "InvalidData"
    ELSE IF ~sessions[sessionId].exists THEN "RelatedNotFound"
    ELSE "ok"

ReviewRow(p) ==
    [ id |-> p, cardId |-> req[p].cardId, sessionId |-> req[p].sessionId,
      quality |-> req[p].quality2 \div 2,
      previousInterval |-> req[p].card.interval,
      previousEaseFactor |-> req[p].card.easeFactor,
      newInterval |-> req[p].sm2Result.interval,
      newEaseFactor |-> req[p].sm2Result.easeFactor,
      reviewedAt |-> now ]

\* prisma.cardReview.create
ReviewCreate(p) ==
    /\ req[p].op = "reviewCard" /\ req[p].pc = "createReview"
    /\ LET outcome == CardReviewAccepts(req[p].quality2, req[p].sessionId)
       IN  IF outcome # "ok"
           THEN /\ req' = Respond(p, outcome)
                /\ UNCHANGED reviews
           ELSE /\ reviews' = Append(reviews, ReviewRow(p))
                /\ req' = [ req EXCEPT ![p].pc = "updateCard" ]
    /\ UNCHANGED <<decks, cards, sessions, now, engineVars, page>>

\* lastReviewAt written only when the review succeeded
ReviewedCard_LastReviewOnSuccess(card, sm2Result, t) ==
    [ card EXCEPT !.easeFactor = sm2Result.easeFactor,
                  !.interval = sm2Result.interval,
                  !.repetitions = sm2Result.repetitions,
                  !.nextReviewAt = sm2Result.nextReviewDate,
                  !.lastReviewAt = IF sm2Result.repetitions > 0 THEN t ELSE @ ]

ReviewedCard(card, sm2Result, t) ==
    [ card EXCEPT !.easeFactor = sm2Result.easeFactor,
                  !.interval = sm2Result.interval,
                  !.repetitions = sm2Result.repetitions,
                  !.nextReviewAt = sm2Result.nextReviewDate,
                  !.lastReviewAt = t ]

\* the update written to every card of the table
ReviewUpdate_EveryCard(p) ==
    /\ req[p].op = "reviewCard" /\ req[p].pc = "updateCard"
    /\ cards' = [ c \in CardIds |->
                    IF cards[c].exists THEN ReviewedCard(cards[c], req[p].sm2Result, now)
                    ELSE cards[c] ]
    /\ req' = Respond(p, "ok")
    /\ UNCHANGED <<decks, reviews, sessions, now, engineVars, page>>

\* prisma.card.update({ where: { id: cardId }, data: { ... } })
ReviewUpdate(p) ==
    /\ req[p].op = "reviewCard" /\ req[p].pc = "updateCard"
    /\ cards' = [ cards EXCEPT ![req[p].cardId] =
                    ReviewedCard(cards[req[p].cardId], req[p].sm2Result, now) ]
    /\ req' = Respond(p, "ok")
    /\ UNCHANGED <<decks, reviews, sessions, now, engineVars, page>>

(***************************************************************************)
(* POST /api/cards/:id/reset: resetCard.                                    *)
(***************************************************************************)
StartReset(p, u, c) ==
    /\ CanStart(p)
    /\ req' = [ req EXCEPT ![p] =
                  [ IdleReq EXCEPT !.op = "resetCard", !.userId = u, !.cardId = c,
                                   !.pc = "findCard" ] ]
    /\ UNCHANGED <<decks, cards, reviews, sessions, now, engineVars, page>>

ResetFind(p) ==
    /\ req[p].op = "resetCard" /\ req[p].pc = "findCard"
    /\ LET card == FindCard(req[p].userId, req[p].cardId)
       IN  IF ~card.exists
           THEN req' = Respond(p, "NotFound")
           ELSE req' = [ req EXCEPT ![p].pc = "updateCard", ![p].card = card ]
    /\ UNCHANGED <<decks, cards, reviews, sessions, now, engineVars, page>>

\* lastReviewAt left as the last review set it
ResetCardRow_KeepsLastReview(card, t) ==
    [ card EXCEPT !.easeFactor = DEFAULT_EASE_FACTOR, !.interval = 0,
                  !.repetitions = 0, !.nextReviewAt = t ]

\* the ease factor left as the reviews made it
ResetCardRow_KeepsEaseFactor(card, t) ==
    [ card EXCEPT !.interval = 0, !.repetitions = 0, !.nextReviewAt = t,
                  !.lastReviewAt = NullTime ]

\* prisma.card.update({ data: { easeFactor: 2.5, interval: 0, repetitions: 0,
\*                              nextReviewAt: new Date(), lastReviewAt: null } })
ResetCardRow(card, t) ==
    [ card EXCEPT !.easeFactor = DEFAULT_EASE_FACTOR, !.interval = 0,
                  !.repetitions = 0, !.nextReviewAt = t, !.lastReviewAt = NullTime ]

\* a reset that also deletes the review rows of the card
ResetUpdate_DeletesReviews(p) ==
    /\ req[p].op = "resetCard" /\ req[p].pc = "updateCard"
    /\ cards' = [ cards EXCEPT ![req[p].cardId] = ResetCardRow(cards[req[p].cardId], now) ]
    /\ reviews' = SelectSeq(reviews, LAMBDA row : row.cardId # req[p].cardId)
    /\ req' = Respond(p, "ok")
    /\ UNCHANGED <<decks, sessions, now, engineVars, page>>

ResetUpdate(p) ==
    /\ req[p].op = "resetCard" /\ req[p].pc = "updateCard"
    /\ cards' = [ cards EXCEPT ![req[p].cardId] = ResetCardRow(cards[req[p].cardId], now) ]
    /\ req' = Respond(p, "ok")
    /\ UNCHANGED <<decks, reviews, sessions, now, engineVars, page>>

(***************************************************************************)
(* POST /api/study/sessions: createSession;                                *)
(* POST /api/study/sessions/:id/end: endSession.                           *)
(***************************************************************************)
StartCreateSession(p, u, d) ==
    /\ CanStart(p)
    /\ req' = [ req EXCEPT ![p] =
                  [ IdleReq EXCEPT !.op = "createSession", !.userId = u, !.deckId = d,
                                   !.pc = "findDeck" ] ]
    /\ UNCHANGED <<decks, cards, reviews, sessions, now, engineVars, page>>

CreateSessionFind(p) ==
    /\ req[p].op = "createSession" /\ req[p].pc = "findDeck"
    /\ req' = IF DeckFound(req[p].userId, req[p].deckId)
              THEN [ req EXCEPT ![p].pc = "createSession" ]
              ELSE Respond(p, "NotFound")
    /\ UNCHANGED <<decks, cards, reviews, sessions, now, engineVars, page>>

\* prisma.studySession.create: the row gets an id no session has
CreateSessionCreate(p) ==
    /\ req[p].op = "createSession" /\ req[p].pc = "createSession"
    /\ \E s \in SessionIds :
         /\ ~sessions[s].exists
         /\ sessions' = [ sessions EXCEPT ![s] =
                            [ exists |-> TRUE, userId |-> req[p].userId,
                              deckId |-> req[p].deckId, startedAt |-> now,
                              endedAt |-> NullTime ] ]
         /\ req' = [ Respond(p, "ok") EXCEPT ![p].sessionId = s ]
    /\ UNCHANGED <<decks, cards, reviews, now, engineVars, page>>

StartEndSession(p, u, s) ==
    /\ CanStart(p)
    /\ req' = [ req EXCEPT ![p] =
                  [ IdleReq EXCEPT !.op = "endSession", !.userId = u, !.sessionId = s,
                                   !.pc = "findSession" ] ]
    /\ UNCHANGED <<decks, cards, reviews, sessions, now, engineVars, page>>

EndSessionFind(p) ==
    /\ req[p].op = "endSession" /\ req[p].pc = "findSession"
    /\ req' = IF SessionFound(req[p].userId, req[p].sessionId)
              THEN [ req EXCEPT ![p].pc = "updateSession" ]
              ELSE Respond(p, "NotFound")
    /\ UNCHANGED <<decks, cards, reviews, sessions, now, engineVars, page>>

EndSessionUpdate(p) ==
    /\ req[p].op = "endSession" /\ req[p].pc = "updateSession"
    /\ sessions' = [ sessions EXCEPT ![req[p].sessionId].endedAt = now ]
    /\ req' = Respond(p, "ok")
    /\ UNCHANGED <<decks, cards, reviews, now, engineVars, page>>

(***************************************************************************)
(* POST /api/decks: createDeck; PATCH /api/decks/:id: updateDeck.          *)
(***************************************************************************)
\* input.parentId of updateDeck when the request body has none
Undefined == "undefined"

\* parentId is NoDeck when the request body has none
StartCreateDeck(p, u, parentId) ==
    /\ CanStart(p)
    /\ req' = [ req EXCEPT ![p] =
                  [ IdleReq EXCEPT !.op = "createDeck", !.userId = u,
                                   !.parentId = parentId,
                                   !.pc = IF parentId # NoDeck THEN "findParent"
                                          ELSE "createDeck" ] ]
    /\ UNCHANGED <<decks, cards, reviews, sessions, now, engineVars, page>>

\* if (input.parentId): prisma.deck.findFirst({ where: { id: input.parentId, userId } })
CreateDeckFindParent(p) ==
    /\ req[p].op = "createDeck" /\ req[p].pc = "findParent"
    /\ req' = IF DeckFound(req[p].userId, req[p].parentId)
              THEN [ req EXCEPT ![p].pc = "createDeck" ]
              ELSE Respond(p, "ParentNotFound")
    /\ UNCHANGED <<decks, cards, reviews, sessions, now, engineVars, page>>

\* prisma.deck.create: the row gets an id no deck has
CreateDeckCreate(p) ==
    /\ req[p].op = "createDeck" /\ req[p].pc = "createDeck"
    /\ \E d \in DeckIds \ {"d0"} :
         /\ ~decks[d].exists
         /\ decks' = [ decks EXCEPT ![d] =
                         [ exists |-> TRUE, userId |-> req[p].userId,
                           parentId |-> req[p].parentId ] ]
         /\ req' = [ Respond(p, "ok") EXCEPT ![p].deckId = d ]
    /\ UNCHANGED <<cards, reviews, sessions, now, engineVars, page>>

\* parentId is Undefined, NoDeck (null) or a deck id
StartUpdateDeck(p, u, d, parentId) ==
    /\ CanStart(p)
    /\ req' = [ req EXCEPT ![p] =
                  [ IdleReq EXCEPT !.op = "updateDeck", !.userId = u, !.deckId = d,
                                   !.parentId = parentId, !.pc = "findDeck" ] ]
    /\ UNCHANGED <<decks, cards, reviews, sessions, now, engineVars, page>>

\* prisma.deck.findFirst({ where: { id: deckId, userId } }), and if (input.parentId)
UpdateDeckFind(p) ==
    /\ req[p].op = "updateDeck" /\ req[p].pc = "findDeck"
    /\ req' = IF ~DeckFound(req[p].userId, req[p].deckId)
              THEN Respond(p, "NotFound")
              ELSE IF req[p].parentId \notin {Undefined, NoDeck}
              THEN [ req EXCEPT ![p].pc = "findParent" ]
              ELSE [ req EXCEPT ![p].pc = "updateDeck" ]
    /\ UNCHANGED <<decks, cards, reviews, sessions, now, engineVars, page>>

\* the findFirst of the new parent, then if (input.parentId === deckId)
UpdateDeckFindParent(p) ==
    /\ req[p].op = "updateDeck" /\ req[p].pc = "findParent"
    /\ req' = IF ~DeckFound(req[p].userId, req[p].parentId)
              THEN Respond(p, "ParentNotFound")
              ELSE IF req[p].parentId = req[p].deckId
              THEN Respond(p, "OwnParent")
              ELSE [ req EXCEPT ![p].pc = "updateDeck" ]
    /\ UNCHANGED <<decks, cards, reviews, sessions, now, engineVars, page>>

\* prisma.deck.update: parentId is written unless it is undefined
UpdateDeckUpdate(p) ==
    /\ req[p].op = "updateDeck" /\ req[p].pc = "updateDeck"
    /\ decks' = IF req[p].parentId # Undefined
                THEN [ decks EXCEPT ![req[p].deckId].parentId = req[p].parentId ]
                ELSE decks
    /\ req' = Respond(p, "ok")
    /\ UNCHANGED <<cards, reviews, sessions, now, engineVars, page>>

(***************************************************************************)
(* GET /api/decks/:id/due: getDueCards.                                    *)
(***************************************************************************)
\* prisma.deck.findMany({ where: { parentId } })
Children(parentId) == { d \in DeckIds : decks[d].exists /\ decks[d].parentId = parentId }

\* the decks the recursion of getSubDeckIds meets within n levels
RECURSIVE SubDecksWithin(_, _)
SubDecksWithin(parentId, n) ==
    IF n = 0 THEN {}
    ELSE Children(parentId)
           \cup UNION { SubDecksWithin(child, n - 1) : child \in Children(parentId) }

Descendants(deckId) == SubDecksWithin(deckId, Cardinality(DeckIds))

\* getSubDeckIds calls itself on every child it finds, with nothing that
\* remembers the decks already visited: it returns when no deck it meets
\* is among its own descendants, and recurses without end otherwise.
getSubDeckIdsReturns(deckId) ==
    \A d \in Descendants(deckId) \cup {deckId} : d \notin Descendants(d)

RECURSIVE getSubDeckIds(_)
getSubDeckIds(parentId) ==
    LET children == Children(parentId)
    IN  children \cup UNION { getSubDeckIds(child) : child \in children }

\* now.setHours(23, 59, 59, 999): the last tick of the day of t
EndOfDay(t) == StartOfDay(t) + TicksPerDay - 1

\* orderBy: { <key>: 'asc' }: the rows in ascending key order; rows of equal
\* key come in an order the database picks.
RECURSIVE OrderedBy(_, _)
OrderedBy(rows, key) ==
    IF rows = {} THEN { <<>> }
    ELSE UNION { { <<r>> \o rest : rest \in OrderedBy(rows \ {r}, key) }
                 : r \in { x \in rows : \A y \in rows : key[x] <= key[y] } }

\* findMany({ where, orderBy, take }): the first `take` rows of the ordered
\* list, and for a negative `take` its last -take rows.
OrderedTake(rows, key, take) ==
    LET n == Cardinality(rows)
    IN  { IF take >= 0 THEN SubSeq(q, 1, Min(take, n))
          ELSE SubSeq(q, Max(1, n + take + 1), n) : q \in OrderedBy(rows, key) }

\* the element at i overwritten by the one at j, with no swap
RECURSIVE FisherYates_Overwrites(_, _)
FisherYates_Overwrites(shuffled, i) ==
    IF i <= 1 THEN {shuffled}
    ELSE UNION { FisherYates_Overwrites([ shuffled EXCEPT ![i] = shuffled[j] ], i - 1)
                 : j \in 1..i }

\* shuffleArray: Fisher-Yates, j = Math.floor(Math.random() * (i + 1))
RECURSIVE FisherYates(_, _)
FisherYates(shuffled, i) ==
    IF i <= 1 THEN {shuffled}
    ELSE UNION { FisherYates([ shuffled EXCEPT ![i] = shuffled[j], ![j] = shuffled[i] ], i - 1)
                 : j \in 1..i }

shuffleArray(array) == FisherYates(array, Len(array))

DefaultDueLimit == 50
MaxDueLimit == 200

\* Math.min(parseInt(req.query.limit, 10) || 50, 200); a limit that is
\* missing or no number parses to NaN, which is 0 here: both give 50.
DueLimit(parsed) == Min(IF parsed = 0 THEN DefaultDueLimit ELSE parsed, MaxDueLimit)

StartDueCards(p, u, d, parsed, includeSubDecks) ==
    /\ CanStart(p)
    /\ req' = [ req EXCEPT ![p] =
                  [ IdleReq EXCEPT !.op = "getDueCards", !.userId = u, !.deckId = d,
                                   !.limit = DueLimit(parsed),
                                   !.includeSubDecks = includeSubDecks,
                                   !.pc = "findDeck" ] ]
    /\ UNCHANGED <<decks, cards, reviews, sessions, now, engineVars, page>>

\* prisma.deck.findFirst and, the deck found, getSubDeckIds and the end of
\* the day; a getSubDeckIds that does not return leaves the request
\* unanswered
DueCardsFind(p) ==
    /\ req[p].op = "getDueCards" /\ req[p].pc = "findDeck"
    /\ req' = IF ~DeckFound(req[p].userId, req[p].deckId)
              THEN Respond(p, "NotFound")
              ELSE IF ~req[p].includeSubDecks
              THEN [ req EXCEPT ![p].pc = "newCards", ![p].deckIds = {req[p].deckId},
                                ![p].endOfDay = EndOfDay(now) ]
              ELSE IF ~getSubDeckIdsReturns(req[p].deckId)
              THEN [ req EXCEPT ![p].pc = "getSubDeckIds" ]
              ELSE [ req EXCEPT ![p].pc = "newCards",
                       ![p].deckIds = getSubDeckIds(req[p].deckId) \cup {req[p].deckId},
                       ![p].endOfDay = EndOfDay(now) ]
    /\ UNCHANGED <<decks, cards, reviews, sessions, now, engineVars, page>>

CreatedAtOf == [ c \in CardIds |-> cards[c].createdAt ]
NextReviewAtOf == [ c \in CardIds |-> cards[c].nextReviewAt ]

\* where: { deckId: { in: deckIds }, repetitions: 0 }
NewCardRows(deckIds) ==
    { c \in CardIds : cards[c].exists /\ cards[c].deckId \in deckIds
                      /\ cards[c].repetitions = 0 }

\* where: { deckId: { in: deckIds }, nextReviewAt: { lte: now }, repetitions: { gt: 0 } }
DueCardRows(deckIds, endOfDay) ==
    { c \in CardIds : cards[c].exists /\ cards[c].deckId \in deckIds
                      /\ cards[c].nextReviewAt <= endOfDay
                      /\ cards[c].repetitions > 0 }

\* the first findMany: repetitions 0, take floor(limit / 3), oldest first
DueCardsNew(p) ==
    /\ req[p].op = "getDueCards" /\ req[p].pc = "newCards"
    /\ \E newCards \in OrderedTake(NewCardRows(req[p].deckIds), CreatedAtOf,
                                   req[p].limit \div 3) :
         req' = [ req EXCEPT ![p].pc = "dueCards", ![p].newCards = newCards ]
    /\ UNCHANGED <<decks, cards, reviews, sessions, now, engineVars, page>>

\* the second findMany: repetitions > 0, nextReviewAt <= end of today, take
\* what the new cards left of the limit; then the shuffle of both lists
DueCardsDue(p) ==
    /\ req[p].op = "getDueCards" /\ req[p].pc = "dueCards"
    /\ \E dueCards \in OrderedTake(DueCardRows(req[p].deckIds, req[p].endOfDay),
                                   NextReviewAtOf, req[p].limit - Len(req[p].newCards)) :
         \E data \in shuffleArray(req[p].newCards \o dueCards) :
           req' = [ Respond(p, "ok") EXCEPT ![p].dueCards = dueCards, ![p].data = data ]
    /\ UNCHANGED <<decks, cards, reviews, sessions, now, engineVars, page>>

(***************************************************************************)
(* The requests over the store.                                            *)
(***************************************************************************)
\* The review and reset requests made: every kind of quality on an owned
\* card, a session that does not exist, a second user on a second card, and
\* the requests that fail (a quality out of range, a card that does not
\* exist or is another user's).
ReviewInputs ==
    ({"u1"} \X {"c1"} \X {"s1"} \X {0, 5, 10})
    \cup {<<"u1", "c1", "s2", 10>>, <<"u2", "c2", "s1", 10>>,
          <<"u1", "c1", "s1", 0 - 2>>, <<"u1", "c1", "s1", 12>>,
          <<"u1", "c0", "s1", 10>>, <<"u1", "c2", "s1", 10>>}

ResetInputs == {<<"u1", "c1">>, <<"u1", "c2">>, <<"u2", "c0">>}

ReviewStep(p) ==
    \/ ReviewFind(p) \/ ReviewCreate(p) \/ ReviewUpdate(p)
    \/ ResetFind(p) \/ ResetUpdate(p)

Next ==
    \/ Tick
    \/ \E p \in ConcurrentReqs :
         \/ \E in \in ReviewInputs : StartReview(p, in[1], in[2], in[3], in[4])
         \/ \E in \in ResetInputs : StartReset(p, in[1], in[2])
         \/ ReviewStep(p)

Spec == Init /\ [][Next]_vars

(***************************************************************************)
(* All five operations, each on a target the user owns, on one that does   *)
(* not exist and on one that is another user's.                            *)
(***************************************************************************)
OpsReviewInputs ==
    {<<"u1", "c1", "s1", 10>>, <<"u1", "c0", "s1", 10>>, <<"u1", "c2", "s1", 0>>,
     <<"u2", "c2", "s1", 10>>, <<"u2", "c2", "s2", 10>>}

OpsCreateSessionInputs == {<<"u1", "d1">>, <<"u1", "d2">>, <<"u2", "d0">>}

OpsEndSessionInputs == {<<"u1", "s1">>, <<"u2", "s1">>, <<"u1", "s2">>}

OpsDueCardsInputs ==
    {<<"u1", "d1", 3, TRUE>>, <<"u2", "d1", 3, TRUE>>, <<"u1", "d0", 3, FALSE>>}

NextOps ==
    \/ Tick
    \/ \E p \in ConcurrentReqs :
         \/ \E in \in OpsReviewInputs : StartReview(p, in[1], in[2], in[3], in[4])
         \/ \E in \in ResetInputs : StartReset(p, in[1], in[2])
         \/ \E in \in OpsCreateSessionInputs : StartCreateSession(p, in[1], in[2])
         \/ \E in \in OpsEndSessionInputs : StartEndSession(p, in[1], in[2])
         \/ \E in \in OpsDueCardsInputs : StartDueCards(p, in[1], in[2], in[3], in[4])
         \/ ReviewStep(p)
         \/ CreateSessionFind(p) \/ CreateSessionCreate(p)
         \/ EndSessionFind(p) \/ EndSessionUpdate(p)
         \/ DueCardsFind(p) \/ DueCardsNew(p) \/ DueCardsDue(p)

SpecOps == Init /\ [][NextOps]_vars

(***************************************************************************)
(* Reviews and resets of one card, each request answered before the next   *)
(* arrives.                                                                *)
(***************************************************************************)
\* a failed review, the two kinds of successful review that move the ease
\* factor, and the reset
SeqReviewInputs == {"u1"} \X {"c1"} \X {"s1"} \X {0, 6, 10}

SeqResetInputs == {<<"u1", "c1">>}

NextSeq ==
    \/ Tick
    \/ \E p \in ReqIds :
         \/ /\ InFlight = {}
            /\ \E in \in SeqReviewInputs : StartReview(p, in[1], in[2], in[3], in[4])
         \/ /\ InFlight = {}
            /\ \E in \in SeqResetInputs : StartReset(p, in[1], in[2])
         \/ ReviewStep(p)

SpecSeq == Init /\ [][NextSeq]_vars

(***************************************************************************)
(* getDueCards over pools of cards: one request on a store that holds a    *)
(* deck d1 of user u1 with a sub-deck d3 and a sub-sub-deck d4, a deck d2   *)
(* of user u2, and six cards, each new, due, or due on a later day; card   *)
(* c2 may also have lapsed: reviewed today with a quality below 3.         *)
(***************************************************************************)
PoolDeck ==
    [ c \in CardIds \ {"c0"} |->
        IF c \in {"c1", "c2"} THEN "d1"
        ELSE IF c \in {"c3", "c4"} THEN "d3"
        ELSE IF c = "c5" THEN "d4" ELSE "d2" ]

\* createdAt, in ticks: c6 is the oldest card, c2 and c3 are as old as each
\* other
PoolCreatedAt ==
    [ c \in CardIds \ {"c0"} |->
        0 - (IF c = "c6" THEN 41 ELSE IF c = "c1" THEN 40 ELSE IF c \in {"c2", "c3"} THEN 39
             ELSE IF c = "c4" THEN 37 ELSE 35) ]

\* the day a reviewed card of the pool is due, today being day 0: c6 is the
\* most overdue card, c2 and c3 are due on the same day
PoolDueDay ==
    [ c \in CardIds \ {"c0"} |->
        0 - (IF c = "c6" THEN 4 ELSE IF c = "c1" THEN 3 ELSE IF c \in {"c2", "c3"} THEN 2
             ELSE IF c = "c4" THEN 1 ELSE 0) ]

PoolKinds == {"new", "due", "later", "lapsed"}

\* the two reviews that a reviewed card of the pool has had, both of
\* quality 4: the second, six days before the card is due, and the first, a
\* day before the second; a lapsed card has had the first yesterday and the
\* second, of quality 0, today
PoolReviewTimes(c, kind) ==
    LET day == IF kind = "due" THEN PoolDueDay[c] ELSE 1
    IN  IF kind = "lapsed" THEN << 0 - TicksPerDay, 0 >>
        ELSE << (day - 7) * TicksPerDay, (day - 6) * TicksPerDay >>

\* the quality of the n-th review of a reviewed card of the pool
PoolQuality(kind, n) == IF kind = "lapsed" /\ n = 2 THEN 0 ELSE 4

\* the card as createCard made it, and as the reviews have left it
PoolCardAfter(c, kind, n) ==
    LET created == NewCard(PoolDeck[c], PoolCreatedAt[c])
        t == PoolReviewTimes(c, kind)
        first == ReviewedCard(created,
                     calculateSM2(2 * PoolQuality(kind, 1), created.repetitions,
                                  created.easeFactor, created.interval, t[1]), t[1])
        second == ReviewedCard(first,
                      calculateSM2(2 * PoolQuality(kind, 2), first.repetitions,
                                   first.easeFactor, first.interval, t[2]), t[2])
    IN  IF kind = "new" \/ n = 0 THEN created ELSE IF n = 1 THEN first ELSE second

PoolCard(c, kind) == PoolCardAfter(c, kind, 2)

\* the rows the two reviews of a reviewed card have left
PoolRows(c, kind) ==
    IF kind = "new" THEN {}
    ELSE { [ id |-> 0 - (2 * (CHOOSE k \in 1..6 : <<"c1", "c2", "c3", "c4", "c5", "c6">>[k] = c) + n),
             cardId |-> c,
             sessionId |-> IF PoolDeck[c] = "d2" THEN "s2" ELSE "s1",
             quality |-> PoolQuality(kind, n + 1),
             previousInterval |-> PoolCardAfter(c, kind, n).interval,
             previousEaseFactor |-> PoolCardAfter(c, kind, n).easeFactor,
             newInterval |-> PoolCardAfter(c, kind, n + 1).interval,
             newEaseFactor |-> PoolCardAfter(c, kind, n + 1).easeFactor,
             reviewedAt |-> PoolReviewTimes(c, kind)[n + 1] ] : n \in {0, 1} }

InitDue ==
    /\ decks = [ d \in DeckIds |->
                   IF d = "d1" THEN [ exists |-> TRUE, userId |-> "u1", parentId |-> NoDeck ]
                   ELSE IF d = "d2" THEN [ exists |-> TRUE, userId |-> "u2", parentId |-> NoDeck ]
                   ELSE IF d = "d3" THEN [ exists |-> TRUE, userId |-> "u1", parentId |-> "d1" ]
                   ELSE IF d = "d4" THEN [ exists |-> TRUE, userId |-> "u1", parentId |-> "d3" ]
                   ELSE [ exists |-> FALSE, userId |-> "u1", parentId |-> NoDeck ] ]
    /\ \E kind \in [ CardIds \ {"c0"} -> PoolKinds ] :
         /\ kind["c6"] # "later"
         /\ \A c \in CardIds \ {"c0", "c2"} : kind[c] # "lapsed"
         /\ cards = [ c \in CardIds |-> IF c = "c0" THEN NoCard ELSE PoolCard(c, kind[c]) ]
         /\ LET rows == UNION { PoolRows(c, kind[c]) : c \in CardIds \ {"c0"} }
                \* rows in the order of their reviews, those of one time by id
                at == [ row \in rows |-> row.reviewedAt * 32 - row.id ]
            IN  reviews = CHOOSE q \in OrderedBy(rows, at) : TRUE
    /\ sessions = [ s \in SessionIds |->
                      [ exists |-> TRUE, userId |-> IF s = "s1" THEN "u1" ELSE "u2",
                        deckId |-> IF s = "s1" THEN "d1" ELSE "d2",
                        startedAt |-> 0 - 50 * TicksPerDay, endedAt |-> NullTime ] ]
    /\ now = 0
    /\ req = [ p \in ReqIds |-> IdleReq ]
    /\ sm2In = NoInput
    /\ sm2Out = NoResult
    /\ sm2Trail = <<>>
    /\ page = NoPage

\* the deck and its sub-decks with limits below 0, missing (0), 1, 3, 4, 6
\* and above the cap, the deck alone, a sub-deck with and without its own
\* sub-deck, and another user's deck
DueInputs ==
    ({"u1"} \X {"d1"} \X {0 - 3, 0, 1, 3, 4, 6} \X {TRUE})
    \cup {<<"u1", "d1", 3, FALSE>>, <<"u1", "d3", 3, TRUE>>, <<"u1", "d3", 6, FALSE>>,
          <<"u1", "d2", 3, TRUE>>, <<"u1", "d4", 250, TRUE>>}

NextDue ==
    \/ \E in \in DueInputs : StartDueCards(1, in[1], in[2], in[3], in[4])
    \/ DueCardsFind(1)
    \/ DueCardsNew(1)
    \/ DueCardsDue(1)

SpecDue == InitDue /\ [][NextDue]_vars

(***************************************************************************)
(* The deck operations: user u1 has a deck d1 with a sub-deck d3, user u2   *)
(* has a deck d2; decks are created and moved, and due cards asked for.    *)
(***************************************************************************)
InitDecks ==
    /\ decks = [ d \in DeckIds |->
                   IF d = "d1" THEN [ exists |-> TRUE, userId |-> "u1", parentId |-> NoDeck ]
                   ELSE IF d = "d2" THEN [ exists |-> TRUE, userId |-> "u2", parentId |-> NoDeck ]
                   ELSE IF d = "d3" THEN [ exists |-> TRUE, userId |-> "u1", parentId |-> "d1" ]
                   ELSE [ exists |-> FALSE, userId |-> "u1", parentId |-> NoDeck ] ]
    /\ cards = [ c \in CardIds |->
                   IF c = "c1" THEN NewCard("d1", 0)
                   ELSE IF c = "c2" THEN NewCard("d2", 0)
                   ELSE IF c = "c3" THEN NewCard("d3", 0)
                   ELSE NoCard ]
    /\ reviews = <<>>
    /\ sessions = [ s \in SessionIds |-> NoSession ]
    /\ now = 0
    /\ req = [ p \in ReqIds |-> IdleReq ]
    /\ sm2In = NoInput
    /\ sm2Out = NoResult
    /\ sm2Trail = <<>>
    /\ page = NoPage

\* a root deck, a deck under a deck of the user, under a sub-deck, under
\* another user's deck and under a deck that does not exist
CreateDeckInputs ==
    {<<"u1", NoDeck>>, <<"u1", "d3">>, <<"u1", "d2">>, <<"u2", "d0">>}

\* a deck moved under its sub-deck, under a deck created since, under
\* itself, to the root, under another user's deck; a sub-deck moved; an
\* update of the name alone; another user's deck
UpdateDeckInputs ==
    {<<"u1", "d1", "d3">>, <<"u1", "d1", "d4">>, <<"u1", "d1", "d1">>,
     <<"u1", "d3", NoDeck>>, <<"u1", "d1", "d2">>, <<"u1", "d3", "d4">>,
     <<"u1", "d3", Undefined>>, <<"u1", "d2", NoDeck>>}

DecksDueInputs == {<<"u1", "d1", 3, TRUE>>, <<"u1", "d3", 3, FALSE>>}

NextDecks ==
    \E p \in ConcurrentReqs :
        \/ \E in \in CreateDeckInputs : StartCreateDeck(p, in[1], in[2])
        \/ \E in \in UpdateDeckInputs : StartUpdateDeck(p, in[1], in[2], in[3])
        \/ \E in \in DecksDueInputs : StartDueCards(p, in[1], in[2], in[3], in[4])
        \/ CreateDeckFindParent(p) \/ CreateDeckCreate(p)
        \/ UpdateDeckFind(p) \/ UpdateDeckFindParent(p) \/ UpdateDeckUpdate(p)
        \/ DueCardsFind(p) \/ DueCardsNew(p) \/ DueCardsDue(p)

SpecDecks == InitDecks /\ [][NextDecks]_vars

(***************************************************************************)
(* calculateSM2 on its own: called once on any prior state, and called     *)
(* again and again on a card that starts with createCard's defaults.       *)
(***************************************************************************)
\* twice the qualities -1, -0.5, 0, ..., 5.5, 6
QualityInputs == (0 - 2)..12

FreshInput(quality2) ==
    [ quality2 |-> quality2, repetitions |-> 0,
      easeFactor |-> DEFAULT_EASE_FACTOR, interval |-> 0 ]

Pending == sm2Out = NoResult

InitEngine ==
    /\ decks = [ d \in DeckIds |-> [ exists |-> FALSE, userId |-> "u1", parentId |-> NoDeck ] ]
    /\ cards = [ c \in CardIds |-> NoCard ]
    /\ reviews = <<>>
    /\ sessions = [ s \in SessionIds |-> NoSession ]
    /\ now = 0
    /\ req = [ p \in ReqIds |-> IdleReq ]
    /\ sm2In \in [ quality2 : QualityInputs, repetitions : 0..MaxReps,
                   easeFactor : MIN_EASE_FACTOR..MaxEF, interval : 0..MaxInterval ]
    /\ sm2Out = NoResult
    /\ sm2Trail = <<>>
    /\ page = NoPage

Compute ==
    /\ Pending
    /\ sm2Out' = calculateSM2(sm2In.quality2, sm2In.repetitions, sm2In.easeFactor,
                              sm2In.interval, now)
    /\ sm2Trail' = Append(sm2Trail, [ input |-> sm2In, result |-> sm2Out' ])
    /\ UNCHANGED <<sm2In, storeVars, page>>

\* the next review of the same card: reviewCard passes the stored result back
ReviewAgain(quality2) ==
    /\ ~Pending
    /\ Len(sm2Trail) < MaxTrail
    /\ sm2Trail[1].input = FreshInput(sm2Trail[1].input.quality2)
    /\ sm2In' = [ quality2 |-> quality2, repetitions |-> sm2Out.repetitions,
                  easeFactor |-> sm2Out.easeFactor, interval |-> sm2Out.interval ]
    /\ sm2Out' = NoResult
    /\ UNCHANGED <<sm2Trail, storeVars, page>>

NextEngine ==
    \/ Compute
    \/ \E quality2 \in QualityInputs : ReviewAgain(quality2)

SpecEngine == InitEngine /\ [][NextEngine]_vars

(***************************************************************************)
(* The scheduling engine's contract.                                       *)
(***************************************************************************)
\* the quality of a call as an integer, for the calls made with an integer
QualityOf(input) == input.quality2 \div 2

\* C4 (failure rule): a call with an integer quality below 3, whatever the
\* prior repetitions, interval and ease factor, returns repetitions 0 and
\* interval 1.
FailureRule ==
    (~Pending /\ IsIntegerQuality(sm2In.quality2) /\ QualityOf(sm2In) < 3)
        => (sm2Out.repetitions = 0 /\ sm2Out.interval = 1)

FailureRuleWitness ==
    /\ ~Pending
    /\ sm2In.quality2 = 4 /\ sm2In.repetitions = MaxReps /\ sm2In.interval > 6
    /\ sm2Out.repetitions = 0 /\ sm2Out.interval = 1

\* the nearest integer to n / 100, a half going up
RoundHundredths(n) == (n + 50) \div 100

EaseChange == <<0 - 80, 0 - 54, 0 - 32, 0 - 14, 0, 10>>

\* C6 (ease-factor update): for every quality 0..5 and every prior ease
\* factor the new one is max(1.3, EF + change), the change being -0.80,
\* -0.54, -0.32, -0.14, 0, +0.10 for the qualities 0..5, on failed reviews as
\* on successful ones.
EaseFactorUpdate ==
    (~Pending /\ IsIntegerQuality(sm2In.quality2) /\ QualityOf(sm2In) \in 0..5)
        => sm2Out.easeFactor =
             Max(130, sm2In.easeFactor + EaseChange[QualityOf(sm2In) + 1])

EaseFactorUpdateWitness ==
    /\ ~Pending
    /\ sm2In.quality2 = 2 /\ sm2In.easeFactor = 250 /\ sm2In.repetitions = 2
    /\ sm2Out.easeFactor = 196 /\ sm2Out.repetitions = 0

\* C7 (engine clamping): a call with any quality returns what the call with
\* that quality rounded (a half going up) and then brought into 0..5
\* returns; below 0 is 0, above 5 is 5.
EngineClamping ==
    ~Pending =>
        LET rounded == (sm2In.quality2 + 1) \div 2
            clamped == IF rounded < 0 THEN 0 ELSE IF rounded > 5 THEN 5 ELSE rounded
        IN  sm2Out = calculateSM2(2 * clamped, sm2In.repetitions, sm2In.easeFactor,
                                  sm2In.interval, now)

EngineClampingWitness ==
    /\ ~Pending
    /\ sm2In.quality2 = 12 /\ sm2In.repetitions = 2 /\ sm2In.easeFactor = 250
    /\ sm2Out.easeFactor = 260 /\ sm2Out.repetitions = 3

(***************************************************************************)
(* The review recorder's contract.                                         *)
(***************************************************************************)
Scheduling(card) ==
    [ repetitions |-> card.repetitions, easeFactor |-> card.easeFactor,
      interval |-> card.interval ]

\* the scheduling state after a review of quality2 on the state `state`
AfterReview(state, quality2) ==
    Scheduling(calculateSM2(quality2, state.repetitions, state.easeFactor,
                            state.interval, now))

Defaults == [ repetitions |-> 0, easeFactor |-> DEFAULT_EASE_FACTOR, interval |-> 0 ]

ReviewOk(p) == req[p].op = "reviewCard" /\ req[p].response = "ok"

\* a request that writes the card c, or has written it
Writes(p, c) ==
    /\ req[p].op \in {"reviewCard", "resetCard"}
    /\ req[p].cardId = c
    /\ req[p].pc \in {"createReview", "updateCard"} \/ req[p].response = "ok"

\* C1 (no lost update): when two reviews of one card have both been
\* answered, and nothing else wrote the card, the card holds what the two
\* reviews give when one is applied after the other, in one of the two
\* orders.
LostUpdateFreedom ==
    \A p, r \in ReqIds :
        (/\ p < r /\ ReviewOk(p) /\ ReviewOk(r)
         /\ req[p].cardId = req[r].cardId
         /\ \A x \in ReqIds \ {p, r} : ~Writes(x, req[p].cardId))
        => Scheduling(cards[req[p].cardId]) \in
             { AfterReview(AfterReview(Defaults, req[p].quality2), req[r].quality2),
               AfterReview(AfterReview(Defaults, req[r].quality2), req[p].quality2) }

HasRow(p) == \E i \in 1..Len(reviews) : reviews[i].id = p

\* C2 (review atomicity): in every state a review's row is in the
\* cardReview table exactly when that review has written the card.
ReviewAtomicity ==
    \A p \in ReqIds : req[p].op = "reviewCard" => (HasRow(p) <=> req[p].response = "ok")

\* C3 (ease-factor floor): no card of the store, no row of the cardReview
\* table and no result a review is about to write has an ease factor below
\* 1.3.
EaseFactorFloor ==
    /\ \A c \in CardIds : cards[c].exists => cards[c].easeFactor >= 130
    /\ \A i \in 1..Len(reviews) : reviews[i].newEaseFactor >= 130
    /\ \A p \in ReqIds :
         (req[p].op = "reviewCard" /\ req[p].pc \in {"createReview", "updateCard"})
            => req[p].sm2Result.easeFactor >= 130

\* two failed reviews have brought a card from 2.5 to the floor
EaseFactorFloorWitness ==
    \E c \in CardIds :
        /\ cards[c].exists /\ cards[c].easeFactor = 130 /\ cards[c].lastReviewAt # NullTime
        /\ \E i \in 1..Len(reviews) :
             reviews[i].cardId = c /\ reviews[i].previousEaseFactor = 170

\* C8 (ingress validation): a review request that has passed the route's
\* validation carries an integer quality in 0..5, and so does every row of
\* the cardReview table.
IngressValidation ==
    /\ \A p \in ReqIds :
         (req[p].op = "reviewCard" /\ req[p].pc \in {"findCard", "createReview", "updateCard"})
            => (IsIntegerQuality(req[p].quality2) /\ req[p].quality2 \in 0..10)
    /\ \A i \in 1..Len(reviews) : reviews[i].quality \in 0..5

RowOf(p) == reviews[CHOOSE i \in 1..Len(reviews) : reviews[i].id = p]

\* C9 (transition snapshot): a review reads the card, appends one row and
\* writes the card.  The row's previous interval and ease factor are the
\* card's when the review read it (its first step), the row's new interval
\* and ease factor are the card's once the review has written it (its last
\* step), the review appends no second row, and the write sets lastReviewAt
\* to the time of the write, whatever the quality.
TransitionSnapshot ==
    [][ \A p \in ReqIds :
          /\ (req[p].op = "reviewCard" /\ req[p].pc = "findCard"
                /\ req'[p].pc = "createReview")
               => /\ req'[p].card.interval = cards[req[p].cardId].interval
                  /\ req'[p].card.easeFactor = cards[req[p].cardId].easeFactor
          /\ (req[p].op = "reviewCard" /\ req[p].pc = "createReview"
                /\ req'[p].pc = "updateCard")
               => /\ ~HasRow(p)
                  /\ reviews' = Append(reviews, reviews'[Len(reviews')])
                  /\ reviews'[Len(reviews')].id = p
                  /\ reviews'[Len(reviews')].cardId = req[p].cardId
                  /\ reviews'[Len(reviews')].previousInterval = req[p].card.interval
                  /\ reviews'[Len(reviews')].previousEaseFactor = req[p].card.easeFactor
          /\ (req[p].op = "reviewCard" /\ req[p].pc = "updateCard"
                /\ req'[p].pc = "done")
               => /\ req'[p].response = "ok"
                  /\ reviews' = reviews
                  /\ Cardinality({ i \in 1..Len(reviews) : reviews[i].id = p }) = 1
                  /\ RowOf(p).newInterval = cards'[req[p].cardId].interval
                  /\ RowOf(p).newEaseFactor = cards'[req[p].cardId].easeFactor
                  /\ cards'[req[p].cardId].lastReviewAt = now
      ]_vars

\* a failed review has been answered: its row and the card's lastReviewAt
TransitionSnapshotWitness ==
    \E p \in ReqIds :
        /\ ReviewOk(p) /\ req[p].quality2 = 0 /\ HasRow(p)
        /\ RowOf(p).previousInterval = 0 /\ RowOf(p).newInterval = 1
        /\ RowOf(p).previousEaseFactor = 250 /\ RowOf(p).newEaseFactor = 170
        /\ cards[req[p].cardId].lastReviewAt = now /\ now > 0
        /\ cards[req[p].cardId].repetitions = 0

(***************************************************************************)
(* Ownership.                                                              *)
(***************************************************************************)
\* what the first query of a request finds
TargetOwned(p) ==
    IF req[p].op \in {"reviewCard", "resetCard"}
    THEN cards[req[p].cardId].exists
         /\ decks[cards[req[p].cardId].deckId].userId = req[p].userId
    ELSE IF req[p].op \in {"createSession", "getDueCards"}
    THEN decks[req[p].deckId].exists /\ decks[req[p].deckId].userId = req[p].userId
    ELSE sessions[req[p].sessionId].exists
         /\ sessions[req[p].sessionId].userId = req[p].userId

\* C10 (ownership errors): a reviewCard, resetCard, createSession,
\* getDueCards or endSession whose card, deck or session does not exist or is
\* another user's is answered not-found at its first query, and that step
\* changes no card, no review row and no session; the request takes no
\* further step.
OwnershipErrors ==
    [][ \A p \in ReqIds :
          /\ (req[p].pc \in {"findCard", "findDeck", "findSession"}
                /\ req'[p] # req[p] /\ ~TargetOwned(p))
               => /\ req'[p].pc = "done" /\ req'[p].response = "NotFound"
                  /\ cards' = cards /\ reviews' = reviews /\ sessions' = sessions
          /\ req[p].response = "NotFound" => req'[p] = req[p]
      ]_vars

\* another user's card and a session that does not exist, both not found
OwnershipErrorsWitness ==
    \E p, r \in ReqIds :
        /\ req[p].op = "reviewCard" /\ req[p].response = "NotFound"
        /\ cards[req[p].cardId].exists
        /\ req[r].op = "endSession" /\ req[r].response = "NotFound"
        /\ ~sessions[req[r].sessionId].exists
        /\ Len(reviews) = 0

(***************************************************************************)
(* GET /api/stats: statsService.getUserStats, the figures it computes from *)
(* the cardReview table.                                                   *)
(***************************************************************************)
\* where: { session: { userId } }: the rows attached to a session of the user
ReviewsOfUser(userId) ==
    { i \in 1..Len(reviews) : /\ sessions[reviews[i].sessionId].exists
                              /\ sessions[reviews[i].sessionId].userId = userId }

\* prisma.cardReview.count({ where: { session: { userId } } })
totalReviews(userId) == Cardinality(ReviewsOfUser(userId))

\* count where reviewedAt >= startOfToday
reviewsToday(userId) ==
    Cardinality({ i \in ReviewsOfUser(userId) : reviews[i].reviewedAt >= StartOfDay(now) })

\* count where quality >= 3
successfulReviews(userId) ==
    Cardinality({ i \in ReviewsOfUser(userId) : reviews[i].quality >= 3 })

\* the rate taken over the failed reviews
Retention_OfFailures(successful, total) ==
    IF total > 0 THEN (200 * (total - successful) + total) \div (2 * total) ELSE 0

\* Math.round((successfulReviews / totalReviews) * 100), 0 with no review.
\* The quotient is a double: below 40 reviews Math.round of the double
\* product is the exact quotient rounded half up.
Retention(successful, total) ==
    IF total > 0 THEN (200 * successful + total) \div (2 * total) ELSE 0

\* the rate over the rows the table holds now
averageRetention(userId) == Retention(successfulReviews(userId), totalReviews(userId))

RECURSIVE SumQuality(_)
SumQuality(rows) ==
    IF rows = {} THEN 0
    ELSE LET i == CHOOSE x \in rows : TRUE
         IN  reviews[i].quality + SumQuality(rows \ {i})

ActivityDays == 7

\* the first instant of the next day counted as part of the day
ActivityEntry_ThroughNextStart(userId, t, i) ==
    LET date == t - i * TicksPerDay
        startOfDay == StartOfDay(date)
        endOfDay == startOfDay + TicksPerDay
        rows == { r \in ReviewsOfUser(userId) :
                    /\ reviews[r].reviewedAt >= startOfDay
                    /\ reviews[r].reviewedAt <= endOfDay }
        n == Cardinality(rows)
    IN  [ date |-> DateOf(date),
          cardsStudied |-> n,
          averageQuality |-> IF n > 0 THEN (20 * SumQuality(rows) + n) \div (2 * n)
                             ELSE 0 ]

\* one turn of getRecentActivity's loop: the day i days before t
ActivityEntry(userId, t, i) ==
    LET date == t - i * TicksPerDay
        startOfDay == StartOfDay(date)
        endOfDay == startOfDay + TicksPerDay
        rows == { r \in ReviewsOfUser(userId) :
                    /\ reviews[r].reviewedAt >= startOfDay
                    /\ reviews[r].reviewedAt < endOfDay }
        n == Cardinality(rows)
    IN  [ date |-> DateOf(date),
          cardsStudied |-> n,
          averageQuality |-> IF n > 0 THEN (20 * SumQuality(rows) + n) \div (2 * n)
                             ELSE 0 ]

\* getRecentActivity(userId, 7) on the rows the table holds now: the last 7
\* days, oldest first
getRecentActivity(userId, days) ==
    [ k \in 1..days |-> ActivityEntry(userId, now, days - k) ]

\* the figures of getUserStats that are computed from review rows
ReviewStats(userId) ==
    [ totalReviews |-> totalReviews(userId),
      cardsStudiedToday |-> reviewsToday(userId),
      averageRetention |-> averageRetention(userId),
      recentActivity |-> getRecentActivity(userId, ActivityDays) ]

(***************************************************************************)
(* Isolation between users.                                                *)
(***************************************************************************)
CardOwner(cardId) == decks[cards[cardId].deckId].userId

\* C11 (cross-user isolation): every review row is of a card that belongs
\* to the user of the row's session and lies in the deck of that session or
\* in one of its sub-decks, and no step of a request changes the review
\* figures (totalReviews, cardsStudiedToday, averageRetention,
\* recentActivity) of a user other than the one who made the request.
CrossUserIsolation ==
    [][ /\ \A i \in 1..Len(reviews') :
             LET row == reviews'[i]
             IN  /\ CardOwner(row.cardId) = sessions'[row.sessionId].userId
                 /\ cards'[row.cardId].deckId \in
                        Descendants(sessions'[row.sessionId].deckId)
                            \cup {sessions'[row.sessionId].deckId}
        /\ \A p \in ReqIds :
             req'[p] # req[p] =>
                 \A b \in UserIds \ {req'[p].userId} : ReviewStats(b)' = ReviewStats(b)
      ]_vars

\* what an id argument of a request is to the user who makes the request
CardIdState(p) ==
    IF ~cards[req[p].cardId].exists THEN "missing"
    ELSE IF CardOwner(req[p].cardId) = req[p].userId THEN "owned" ELSE "foreign"

DeckIdState(p) ==
    IF ~decks[req[p].deckId].exists THEN "missing"
    ELSE IF decks[req[p].deckId].userId = req[p].userId THEN "owned" ELSE "foreign"

SessionIdState(p) ==
    IF ~sessions[req[p].sessionId].exists THEN "missing"
    ELSE IF sessions[req[p].sessionId].userId = req[p].userId THEN "owned" ELSE "foreign"

\* the states of the id arguments of a request: <<card, deck, session>>,
\* "unused" for an argument the operation does not take
IdStates(p) ==
    << IF req[p].op \in {"reviewCard", "resetCard"} THEN CardIdState(p) ELSE "unused",
       IF req[p].op \in {"createSession", "getDueCards"} THEN DeckIdState(p) ELSE "unused",
       IF req[p].op \in {"reviewCard", "endSession"} THEN SessionIdState(p) ELSE "unused" >>

\* C12 (no enumeration leak): two answered requests of one operation, alike
\* but for one id argument that does not exist in the one and is another
\* user's in the other (the other id argument, if any, being the caller's
\* own), have the same answer.
NoEnumerationLeak ==
    \A p, r \in ReqIds : \A k \in 1..3 :
        (/\ req[p].pc = "done" /\ req[r].pc = "done"
         /\ req[p].op = req[r].op /\ req[p].quality2 = req[r].quality2
         /\ IdStates(p)[k] = "missing" /\ IdStates(r)[k] = "foreign"
         /\ \A j \in (1..3) \ {k} :
              IdStates(p)[j] = IdStates(r)[j] /\ IdStates(p)[j] \in {"owned", "unused"})
        => req[p].response = req[r].response

(***************************************************************************)
(* The review history and resetCard.                                       *)
(***************************************************************************)
\* C13 (append-only history): no step of a reviewCard, resetCard,
\* createSession, endSession or getDueCards request changes or removes a row
\* of the cardReview table: the table after the step is the table before
\* it, or that table with rows appended.
AppendOnlyHistory ==
    [][ /\ Len(reviews') >= Len(reviews)
        /\ SubSeq(reviews', 1, Len(reviews)) = reviews ]_vars

\* a card reviewed and then reset, in a session that was then ended: the
\* row of the review is still there
AppendOnlyHistoryWitness ==
    \E p, r \in ReqIds : \E i \in 1..Len(reviews) :
        /\ p < r /\ ReviewOk(p) /\ reviews[i].id = p
        /\ req[r].op \in {"resetCard", "endSession"} /\ req[r].response = "ok"
        /\ (req[r].op = "resetCard" =>
                reviews[i].cardId = req[r].cardId /\ cards[req[r].cardId].interval = 0)
        /\ (req[r].op = "endSession" => reviews[i].sessionId = req[r].sessionId)

\* C14 (resetCard effect and frame): a resetCard on a card of the caller
\* reaches its write whatever the card's state, and the write sets
\* easeFactor 2.5, interval 0, repetitions 0, nextReviewAt to the time of the
\* write and lastReviewAt to null, and changes nothing else of the card, no
\* other card, no review row, no session and no deck.
ResetEffectAndFrame ==
    [][ \A p \in ReqIds :
          /\ (req[p].op = "resetCard" /\ req[p].pc = "findCard"
                /\ req'[p] # req[p] /\ TargetOwned(p))
               => req'[p].pc = "updateCard"
          /\ (req[p].op = "resetCard" /\ req[p].pc = "updateCard" /\ req'[p].pc = "done")
               => /\ req'[p].response = "ok"
                  /\ cards'[req[p].cardId] =
                        [ cards[req[p].cardId] EXCEPT
                            !.easeFactor = 250, !.interval = 0, !.repetitions = 0,
                            !.nextReviewAt = now, !.lastReviewAt = NullTime ]
                  /\ \A c \in CardIds \ {req[p].cardId} : cards'[c] = cards[c]
                  /\ reviews' = reviews /\ sessions' = sessions /\ decks' = decks
      ]_vars

\* a card that a failed review had brought to ease factor 1.7 has been reset
ResetEffectAndFrameWitness ==
    \E p, r \in ReqIds :
        /\ ReviewOk(p) /\ HasRow(p) /\ RowOf(p).newEaseFactor = 170
        /\ req[r].op = "resetCard" /\ req[r].response = "ok"
        /\ req[r].cardId = req[p].cardId
        /\ cards[req[r].cardId].easeFactor = 250
        /\ cards[req[r].cardId].lastReviewAt = NullTime
        /\ cards[req[r].cardId].nextReviewAt = now /\ now > 0
        /\ Len(reviews) = 1

\* the last request up to p that reset the card c, 0 when there is none
RECURSIVE LastReset(_, _)
LastReset(c, p) ==
    IF p = 0 THEN 0
    ELSE IF req[p].op = "resetCard" /\ req[p].cardId = c /\ req[p].response = "ok" THEN p
    ELSE LastReset(c, p - 1)

\* the qualities of the answered reviews of the card c among the requests
\* p, p + 1, ..., in the order of the requests
RECURSIVE QualitiesFrom(_, _)
QualitiesFrom(c, p) ==
    IF p > Cardinality(ReqIds) THEN <<>>
    ELSE (IF ReviewOk(p) /\ req[p].cardId = c THEN <<req[p].quality2>> ELSE <<>>)
             \o QualitiesFrom(c, p + 1)

\* the scheduling state after the reviews of the qualities qs, one after
\* the other, from the state `state`
RECURSIVE Replay(_, _)
Replay(state, qs) ==
    IF qs = <<>> THEN state ELSE Replay(AfterReview(state, Head(qs)), Tail(qs))

\* C15 (reset erases the scheduling history): with the requests made one
\* after the other, whenever none is in flight the card has the
\* repetitions, ease factor and interval that the reviews made since its
\* last reset give to a card just created, whatever reviews came before the
\* reset; a card never reset has what all its reviews give to a card just
\* created.  Three quality-5 reviews after a reset leave the intervals 1, 6
\* and 17 in their rows.
ResetErasesHistory ==
    InFlight = {} =>
        \A c \in {"c1"} :
            LET r == LastReset(c, Cardinality(ReqIds))
                qs == QualitiesFrom(c, r + 1)
            IN  /\ Scheduling(cards[c]) = Replay(Scheduling(NewCard(cards[c].deckId, now)), qs)
                /\ (r > 0 /\ qs = <<10, 10, 10>>) =>
                      /\ Len(reviews) >= 3
                      /\ \A k \in 1..3 :
                           reviews[Len(reviews) - 3 + k].newInterval = <<1, 6, 17>>[k]

\* a failed review, a reset, and three quality-5 reviews
ResetErasesHistoryWitness ==
    /\ InFlight = {}
    /\ LastReset("c1", Cardinality(ReqIds)) = 2
    /\ ReviewOk(1) /\ req[1].quality2 = 0
    /\ QualitiesFrom("c1", 3) = <<10, 10, 10>>
    /\ cards["c1"].interval = 17 /\ cards["c1"].easeFactor = 280
    /\ cards["c1"].repetitions = 3

(***************************************************************************)
(* The session builder's contract (getDueCards).                           *)
(***************************************************************************)
DueAnswered(p) == req[p].op = "getDueCards" /\ req[p].response = "ok"

\* the decks a request asks for: the deck, and its descendants when
\* includeSubDecks is true
Scope(p) ==
    IF req[p].includeSubDecks THEN Descendants(req[p].deckId) \cup {req[p].deckId}
    ELSE {req[p].deckId}

\* the new cards and the due cards of the pool of a request
PoolNew(p) ==
    { c \in CardIds : cards[c].exists /\ cards[c].deckId \in Scope(p)
                      /\ cards[c].repetitions = 0 }

PoolDue(p) ==
    { c \in CardIds : cards[c].exists /\ cards[c].deckId \in Scope(p)
                      /\ cards[c].repetitions > 0
                      /\ cards[c].nextReviewAt <= StartOfDay(now) + TicksPerDay - 1 }

Returned(p) == { req[p].data[i] : i \in 1..Len(req[p].data) }

\* C16 (session bound and scope): an answered getDueCards returns at most
\* `limit` cards, each of the requested deck or, with includeSubDecks, of
\* one of its descendants.
SessionBoundAndScope ==
    \A p \in ReqIds :
        DueAnswered(p) =>
            /\ Len(req[p].data) <= req[p].limit
            /\ \A c \in Returned(p) : cards[c].exists /\ cards[c].deckId \in Scope(p)

\* C17 (quota composition): with N new and D due cards in the pool, an
\* answered getDueCards returns min(N, floor(limit / 3)) new cards and
\* min(D, limit - min(N, floor(limit / 3))) due cards, each once, and the
\* empty list when N = D = 0.
QuotaComposition ==
    \A p \in ReqIds :
        DueAnswered(p) =>
            LET N == Cardinality(PoolNew(p))
                D == Cardinality(PoolDue(p))
                quota == Min(N, req[p].limit \div 3)
            IN  /\ Cardinality(Returned(p) \cap PoolNew(p)) = quota
                /\ Cardinality(Returned(p) \cap PoolDue(p)) = Min(D, req[p].limit - quota)
                /\ Len(req[p].data) = Cardinality(Returned(p))
                /\ Returned(p) \subseteq PoolNew(p) \cup PoolDue(p)
                /\ (N = 0 /\ D = 0) => req[p].data = <<>>

\* C18 (selection priority): of an answered getDueCards, no new card left
\* out was created before a new card returned, no due card left out has an
\* earlier nextReviewAt than a due card returned, and no reviewed card due
\* after the end of today is returned.
SelectionPriority ==
    \A p \in ReqIds :
        DueAnswered(p) =>
            /\ \A c \in Returned(p) \cap PoolNew(p) : \A u \in PoolNew(p) \ Returned(p) :
                 cards[u].createdAt >= cards[c].createdAt
            /\ \A c \in Returned(p) \cap PoolDue(p) : \A u \in PoolDue(p) \ Returned(p) :
                 cards[u].nextReviewAt >= cards[c].nextReviewAt
            /\ \A c \in Returned(p) :
                 cards[c].repetitions > 0 => cards[c].nextReviewAt <= EndOfDay(now)

\* the number of places of the list q that hold x
CountIn(q, x) == Cardinality({ i \in 1..Len(q) : q[i] = x })

\* C19 (shuffle preserves composition): the last step of getDueCards
\* answers with a list that holds every card of the selected new cards
\* followed by the selected due cards as many times as they hold it, that
\* is once, and no other card, whatever the random choices; the list of
\* selected new cards is as it was before the shuffle.
ShufflePreservesComposition ==
    [][ \A p \in ReqIds :
          (req[p].op = "getDueCards" /\ req[p].pc = "dueCards" /\ req'[p].pc = "done")
            => LET selected == req'[p].newCards \o req'[p].dueCards
               IN  /\ req'[p].newCards = req[p].newCards
                   /\ Len(req'[p].data) = Len(selected)
                   /\ \A c \in CardIds :
                        /\ CountIn(req'[p].data, c) = CountIn(selected, c)
                        /\ CountIn(req'[p].data, c) <= 1
      ]_vars

\* two new cards and three due cards returned in another order than the
\* one they were selected in
ShufflePreservesCompositionWitness ==
    \E p \in ReqIds :
        /\ DueAnswered(p)
        /\ Len(req[p].newCards) = 2 /\ Len(req[p].dueCards) = 3
        /\ req[p].data # req[p].newCards \o req[p].dueCards
        /\ req[p].data[1] = req[p].dueCards[3]
        /\ Returned(p) = { "c1", "c2", "c3", "c4", "c5" }

(***************************************************************************)
(* The deck hierarchy.                                                     *)
(***************************************************************************)
\* the deck reached from d by n steps along parentId, NoDeck past a root
RECURSIVE AncestorAt(_, _)
AncestorAt(d, n) ==
    IF n = 0 THEN d
    ELSE LET a == AncestorAt(d, n - 1)
         IN  IF a = NoDeck \/ a \notin DeckIds THEN NoDeck ELSE decks[a].parentId

\* C20 (the deck hierarchy stays a tree): in every state reached by
\* createDeck and updateDeck no deck is its own ancestor, and no getDueCards
\* is left in a sub-deck traversal that does not return.
DeckHierarchyIsTree ==
    /\ \A d \in DeckIds :
         decks[d].exists => \A n \in 1..Cardinality(DeckIds) : AncestorAt(d, n) # d
    /\ \A p \in ReqIds : req[p].pc # "getSubDeckIds"

(***************************************************************************)
(* The streaks.  A calendar day is the date part of toISOString(); the     *)
(* server's clock is taken to run on UTC, so that the days of              *)
(* new Date(y, m, d) and of toISOString() are the same days.               *)
(***************************************************************************)
\* [...].sort().reverse(): the days, the latest first
RECURSIVE SortedDescending(_)
SortedDescending(S) ==
    IF S = {} THEN <<>>
    ELSE LET latest == CHOOSE x \in S : \A y \in S : y <= x
         IN  <<latest>> \o SortedDescending(S \ {latest})

\* only a session of today keeps the streak alive
StreakActive_TodayOnly(uniqueDates, today, yesterday) == uniqueDates[1] = today

\* uniqueDates[0] === today || uniqueDates[0] === yesterday
StreakActive(uniqueDates, today, yesterday) ==
    uniqueDates[1] = today \/ uniqueDates[1] = yesterday

\* the loop that counts the days of the current streak, from index i on
RECURSIVE CurrentStreakLoop(_, _, _)
CurrentStreakLoop(uniqueDates, i, currentStreak) ==
    IF i > Len(uniqueDates) THEN currentStreak
    ELSE IF uniqueDates[i - 1] - uniqueDates[i] = 1
         THEN CurrentStreakLoop(uniqueDates, i + 1, currentStreak + 1)
         ELSE currentStreak

\* the loop over all days: <<longestStreak, tempStreak>> when it ends
RECURSIVE LongestStreakLoop(_, _, _, _)
LongestStreakLoop(uniqueDates, i, longestStreak, tempStreak) ==
    IF i > Len(uniqueDates) THEN <<longestStreak, tempStreak>>
    ELSE IF uniqueDates[i - 1] - uniqueDates[i] = 1
         THEN LongestStreakLoop(uniqueDates, i + 1, longestStreak, tempStreak + 1)
         ELSE LongestStreakLoop(uniqueDates, i + 1, Max(longestStreak, tempStreak), 1)

\* the days on which the user started a session
SessionDates(userId) ==
    { DateOf(sessions[s].startedAt) :
        s \in { x \in DOMAIN sessions : sessions[x].exists /\ sessions[x].userId = userId } }

\* statsService.calculateStreaks, on the sessions findMany returns
calculateStreaks(userId) ==
    LET uniqueDates == SortedDescending(SessionDates(userId))
        today == DateOf(now)
        yesterday == DateOf(now - TicksPerDay)
        currentStreak == IF StreakActive(uniqueDates, today, yesterday)
                         THEN CurrentStreakLoop(uniqueDates, 2, 1)
                         ELSE 0
        loop == LongestStreakLoop(uniqueDates, 2, 0, 1)
    IN  IF uniqueDates = <<>>
        THEN [ currentStreak |-> 0, longestStreak |-> 0 ]
        ELSE [ currentStreak |-> currentStreak,
               longestStreak |-> Max(Max(loop[1], loop[2]), currentStreak) ]

\* calculateStreak's loop over the days, from index i on
RECURSIVE StreakLoop(_, _, _)
StreakLoop(sortedDays, i, streak) ==
    IF i > Len(sortedDays) THEN streak
    ELSE IF sortedDays[i - 1] - sortedDays[i] = 1
         THEN StreakLoop(sortedDays, i + 1, streak + 1)
         ELSE streak

\* the days on which a review of the user was recorded
ReviewDates(userId) == { DateOf(reviews[i].reviewedAt) : i \in ReviewsOfUser(userId) }

\* study.service calculateStreak, on the reviews findMany returns
calculateStreak(userId) ==
    LET sortedDays == SortedDescending(ReviewDates(userId))
        today == DateOf(now)
        yesterday == DateOf(now - TicksPerDay)
    IN  IF sortedDays = <<>> THEN 0
        ELSE IF sortedDays[1] # today /\ sortedDays[1] # yesterday THEN 0
        ELSE StreakLoop(sortedDays, 2, 1)

(***************************************************************************)
(* GET /api/stats as a request: statsService.getUserStats, one step for    *)
(* each awaited query (or Promise.all of queries).                         *)
(***************************************************************************)
\* prisma.cardReview.count({ where: { session: { userId }, reviewedAt: { gte } } })
ReviewsSince(userId, from) ==
    Cardinality({ i \in ReviewsOfUser(userId) : reviews[i].reviewedAt >= from })

\* the cards of the user's decks
CardsOfUser(userId) ==
    { c \in CardIds : /\ cards[c].exists
                      /\ decks[cards[c].deckId].exists
                      /\ decks[cards[c].deckId].userId = userId }

\* activity.reverse()
Reverse(q) == [ k \in 1..Len(q) |-> q[Len(q) + 1 - k] ]

\* router.get('/'): the handler calls getUserStats, which reads the clock
StartUserStats(p, u) ==
    /\ CanStart(p)
    /\ req' = [ req EXCEPT ![p] =
                  [ IdleReq EXCEPT !.op = "getUserStats", !.userId = u, !.pc = "counts",
                                   !.stats.now = now,
                                   !.stats.startOfToday = StartOfDay(now) ] ]
    /\ UNCHANGED <<decks, cards, reviews, sessions, now, engineVars, page>>

\* Promise.all of deck.count, card.count and card.count of the due cards
UserStatsCounts(p) ==
    /\ req[p].op = "getUserStats" /\ req[p].pc = "counts"
    /\ LET u == req[p].userId
       IN  req' = [ req EXCEPT
                      ![p].pc = "reviewCounts",
                      ![p].stats.totalDecks =
                          Cardinality({ d \in DeckIds : decks[d].exists /\ decks[d].userId = u }),
                      ![p].stats.totalCards = Cardinality(CardsOfUser(u)),
                      ![p].stats.cardsDueToday =
                          Cardinality({ c \in CardsOfUser(u) :
                                          cards[c].nextReviewAt <= req[p].stats.now }) ]
    /\ UNCHANGED <<decks, cards, reviews, sessions, now, engineVars, page>>

\* Promise.all of the three cardReview.count: today, this week, all
UserStatsReviewCounts(p) ==
    /\ req[p].op = "getUserStats" /\ req[p].pc = "reviewCounts"
    /\ LET u == req[p].userId
           startOfToday == req[p].stats.startOfToday
       IN  req' = [ req EXCEPT
                      ![p].pc = "aggregate",
                      ![p].stats.cardsStudiedToday = ReviewsSince(u, startOfToday),
                      ![p].stats.cardsStudiedThisWeek =
                          ReviewsSince(u, startOfToday - 7 * TicksPerDay),
                      ![p].stats.totalReviews = totalReviews(u) ]
    /\ UNCHANGED <<decks, cards, reviews, sessions, now, engineVars, page>>

\* prisma.cardReview.aggregate: retentionStats, which nothing reads
UserStatsAggregate(p) ==
    /\ req[p].op = "getUserStats" /\ req[p].pc = "aggregate"
    /\ req' = [ req EXCEPT ![p].pc = "successfulReviews" ]
    /\ UNCHANGED <<decks, cards, reviews, sessions, now, engineVars, page>>

\* prisma.cardReview.count of the rows of quality 3 and more, and the rate
UserStatsSuccessful(p) ==
    /\ req[p].op = "getUserStats" /\ req[p].pc = "successfulReviews"
    /\ LET successful == successfulReviews(req[p].userId)
       IN  req' = [ req EXCEPT
                      ![p].pc = "calculateStreaks",
                      ![p].stats.successfulReviews = successful,
                      ![p].stats.averageRetention =
                          Retention(successful, req[p].stats.totalReviews) ]
    /\ UNCHANGED <<decks, cards, reviews, sessions, now, engineVars, page>>

\* calculateStreaks: studySession.findMany and the two loops; then
\* getRecentActivity reads the clock and starts its loop
UserStatsStreaks(p) ==
    /\ req[p].op = "getUserStats" /\ req[p].pc = "calculateStreaks"
    /\ req' = [ req EXCEPT
                  ![p].pc = "getRecentActivity",
                  ![p].stats.currentStreak = calculateStreaks(req[p].userId).currentStreak,
                  ![p].stats.longestStreak = calculateStreaks(req[p].userId).longestStreak,
                  ![p].stats.now = now,
                  ![p].stats.i = 0,
                  ![p].stats.activity = <<>> ]
    /\ UNCHANGED <<decks, cards, reviews, sessions, now, engineVars, page>>

\* one turn of getRecentActivity's loop: cardReview.findMany of one day;
\* after the last turn the list is reversed and the handler answers
UserStatsActivity(p) ==
    /\ req[p].op = "getUserStats" /\ req[p].pc = "getRecentActivity"
    /\ LET activity == Append(req[p].stats.activity,
                              ActivityEntry(req[p].userId, req[p].stats.now, req[p].stats.i))
       IN  IF req[p].stats.i + 1 < ActivityDays
           THEN req' = [ req EXCEPT ![p].stats.i = @ + 1, ![p].stats.activity = activity ]
           ELSE req' = [ req EXCEPT
                           ![p].pc = "done", ![p].response = "ok",
                           ![p].stats.i = @ + 1,
                           ![p].stats.activity = activity,
                           ![p].stats.recentActivity = Reverse(activity),
                           ![p].stats.studyTimeToday =
                               (20 * req[p].stats.cardsStudiedToday + 60) \div 120 ]
    /\ UNCHANGED <<decks, cards, reviews, sessions, now, engineVars, page>>

(***************************************************************************)
(* GET /api/study/stats as a request: study.service getUserStats.          *)
(***************************************************************************)
StartStudyStats(p, u) ==
    /\ CanStart(p)
    /\ req' = [ req EXCEPT ![p] =
                  [ IdleReq EXCEPT !.op = "getStudyStats", !.userId = u, !.pc = "counts",
                                   !.stats.now = now,
                                   !.stats.startOfToday = StartOfDay(now) ] ]
    /\ UNCHANGED <<decks, cards, reviews, sessions, now, engineVars, page>>

\* Promise.all of the five counts; endOfToday is today's last instant
StudyStatsCounts(p) ==
    /\ req[p].op = "getStudyStats" /\ req[p].pc = "counts"
    /\ LET u == req[p].userId
           startOfToday == req[p].stats.startOfToday
           endOfToday == startOfToday + TicksPerDay - 1
       IN  req' = [ req EXCEPT
                      ![p].pc = "calculateStreak",
                      ![p].stats.totalCards = Cardinality(CardsOfUser(u)),
                      ![p].stats.totalDecks =
                          Cardinality({ d \in DeckIds : decks[d].exists /\ decks[d].userId = u }),
                      ![p].stats.totalReviews = totalReviews(u),
                      ![p].stats.todayReviews =
                          Cardinality({ i \in ReviewsOfUser(u) :
                                          /\ reviews[i].reviewedAt >= startOfToday
                                          /\ reviews[i].reviewedAt <= endOfToday }),
                      ![p].stats.dueToday =
                          Cardinality({ c \in CardsOfUser(u) :
                                          cards[c].nextReviewAt <= endOfToday }) ]
    /\ UNCHANGED <<decks, cards, reviews, sessions, now, engineVars, page>>

\* calculateStreak: cardReview.findMany and the loop; then the answer
StudyStatsStreak(p) ==
    /\ req[p].op = "getStudyStats" /\ req[p].pc = "calculateStreak"
    /\ req' = [ req EXCEPT ![p].pc = "done", ![p].response = "ok",
                           ![p].stats.streak = calculateStreak(req[p].userId) ]
    /\ UNCHANGED <<decks, cards, reviews, sessions, now, engineVars, page>>

(***************************************************************************)
(* Stores with a past: the reviews a card has had, oldest first, each      *)
(* [ quality, at, sessionId, cardId ], the rows they left and the card as  *)
(* they left it.                                                           *)
(***************************************************************************)
\* the day the cards of such a store were created, today being day 0
HistoryCreatedDay == 0 - 10

\* card c as createCard made it, and as the first n reviews left it
RECURSIVE HistoryCard(_, _, _)
HistoryCard(c, history, n) ==
    IF n = 0 THEN NewCard(IF c = "c1" THEN "d1" ELSE "d2", HistoryCreatedDay * TicksPerDay)
    ELSE LET before == HistoryCard(c, history, n - 1)
             review == history[n]
         IN  IF review.cardId # c THEN before
             ELSE ReviewedCard(before,
                      calculateSM2(2 * review.quality, before.repetitions,
                                   before.easeFactor, before.interval, review.at),
                      review.at)

\* the row reviewCard wrote for the n-th review
HistoryRow(history, n) ==
    LET review == history[n]
    IN  [ id |-> 0 - n,
          cardId |-> review.cardId,
          sessionId |-> review.sessionId,
          quality |-> review.quality,
          previousInterval |-> HistoryCard(review.cardId, history, n - 1).interval,
          previousEaseFactor |-> HistoryCard(review.cardId, history, n - 1).easeFactor,
          newInterval |-> HistoryCard(review.cardId, history, n).interval,
          newEaseFactor |-> HistoryCard(review.cardId, history, n).easeFactor,
          reviewedAt |-> review.at ]

HistoryRows(history) == [ n \in 1..Len(history) |-> HistoryRow(history, n) ]

(***************************************************************************)
(* The streaks of a user who started up to four sessions on the days from  *)
(* MaxStreakDay days ago to today, and reviewed a card in some of them;    *)
(* another user started a session today.  GET /api/stats is answered       *)
(* first, GET /api/study/stats after it.                                   *)
(***************************************************************************)
MaxStreakDay == 7

StreakSessionIds == <<"s1", "s2", "s3", "s4">>

\* "days ago" of a session that was never started
NoDay == MaxStreakDay + 1

\* the instant session k started, on the day `ago` days before today
StreakStartedAt(k, ago) ==
    (0 - ago) * TicksPerDay + (IF k % 2 = 1 THEN TicksPerDay - 1 ELSE 0)

InitStreak ==
    /\ decks = [ d \in DeckIds |->
                   IF d = "d1" THEN [ exists |-> TRUE, userId |-> "u1", parentId |-> NoDeck ]
                   ELSE IF d = "d2" THEN [ exists |-> TRUE, userId |-> "u2", parentId |-> NoDeck ]
                   ELSE [ exists |-> FALSE, userId |-> "u1", parentId |-> NoDeck ] ]
    /\ \E ago \in [ 1..4 -> 0..NoDay ], reviewed \in SUBSET {1, 2} :
         /\ \A k \in 1..3 : ago[k] <= ago[k + 1]
         /\ \A k \in reviewed : ago[k] # NoDay
         /\ sessions =
              [ s \in {"s1", "s2", "s3", "s4", "s5"} |->
                  IF s = "s5"
                  THEN [ exists |-> TRUE, userId |-> "u2", deckId |-> "d2",
                         startedAt |-> 0, endedAt |-> NullTime ]
                  ELSE LET k == CHOOSE x \in 1..4 : StreakSessionIds[x] = s
                       IN  IF ago[k] = NoDay THEN NoSession
                           ELSE [ exists |-> TRUE, userId |-> "u1", deckId |-> "d1",
                                  startedAt |-> StreakStartedAt(k, ago[k]),
                                  endedAt |-> NullTime ] ]
         /\ LET review(k) == [ quality |-> 4, at |-> StreakStartedAt(k, ago[k]),
                               sessionId |-> StreakSessionIds[k], cardId |-> "c1" ]
                history == (IF 2 \in reviewed THEN <<review(2)>> ELSE <<>>)
                               \o (IF 1 \in reviewed THEN <<review(1)>> ELSE <<>>)
            IN  /\ reviews = HistoryRows(history)
                /\ cards = [ c \in CardIds |->
                               IF c \in {"c1", "c2"} THEN HistoryCard(c, history, Len(history))
                               ELSE NoCard ]
    /\ now = TicksPerDay - 1
    /\ req = [ p \in ReqIds |-> IdleReq ]
    /\ sm2In = NoInput
    /\ sm2Out = NoResult
    /\ sm2Trail = <<>>
    /\ page = NoPage

NextStreak ==
    \/ \E u \in UserIds : StartUserStats(1, u)
    \/ UserStatsCounts(1)
    \/ UserStatsReviewCounts(1)
    \/ UserStatsAggregate(1)
    \/ UserStatsSuccessful(1)
    \/ UserStatsStreaks(1)
    \/ UserStatsActivity(1)
    \/ /\ InFlight = {}
       /\ \E u \in UserIds : StartStudyStats(2, u)
    \/ StudyStatsCounts(2)
    \/ StudyStatsStreak(2)

SpecStreak == InitStreak /\ [][NextStreak]_vars

(***************************************************************************)
(* The streaks' contract.                                                  *)
(***************************************************************************)
LatestOf(S) == CHOOSE x \in S : \A y \in S : y <= x

\* the length of the run of consecutive days of S that ends at day d of S
RunEndingAt(S, d) ==
    CHOOSE k \in 1..Cardinality(S) : /\ \A j \in 0..(k - 1) : d - j \in S
                                     /\ d - k \notin S

StatsAnswered(p) == req[p].op = "getUserStats" /\ req[p].pc = "done"

\* C21 (streak computation): with S the days on which the user started a
\* session, the currentStreak GET /api/stats answers is 0 when S is empty or
\* its latest day is neither today nor yesterday, and otherwise the length
\* of the run of consecutive days ending at the latest day; longestStreak is
\* the length of the longest run of consecutive days in S, 0 when S is
\* empty, and never less than currentStreak.  Sessions today, yesterday and
\* the day before give 3; sessions only 5, 6 and 7 days ago give 0 and 3.
StreakComputation ==
    \A p \in ReqIds :
        StatsAnswered(p) =>
            LET S == SessionDates(req[p].userId)
                today == DateOf(now)
                currentStreak == req[p].stats.currentStreak
                longestStreak == req[p].stats.longestStreak
            IN  /\ currentStreak =
                       IF S = {} \/ LatestOf(S) \notin {today, today - 1} THEN 0
                       ELSE RunEndingAt(S, LatestOf(S))
                /\ S = {} => longestStreak = 0
                /\ S # {} => /\ \E d \in S : longestStreak = RunEndingAt(S, d)
                             /\ \A d \in S : longestStreak >= RunEndingAt(S, d)
                /\ longestStreak >= currentStreak
                /\ S = {today, today - 1, today - 2} => currentStreak = 3
                /\ S = {today - 5, today - 6, today - 7}
                     => (currentStreak = 0 /\ longestStreak = 3)

\* sessions yesterday (two of them) and two and four days ago: the current
\* streak is 2 and the longest is 2
StreakComputationWitness ==
    \E p \in ReqIds :
        /\ StatsAnswered(p) /\ req[p].userId = "u1"
        /\ SessionDates("u1") = {DateOf(now) - 1, DateOf(now) - 2, DateOf(now) - 4}
        /\ Cardinality({ s \in DOMAIN sessions : sessions[s].exists /\ sessions[s].userId = "u1" }) = 4
        /\ req[p].stats.currentStreak = 2 /\ req[p].stats.longestStreak = 2

(***************************************************************************)
(* GET /api/stats while a card is reviewed: user u1 has reviewed card c1   *)
(* at up to five instants of the last eight days (the last instant of the  *)
(* day 7 days ago, the first of the day 6 days ago, the last of yesterday, *)
(* the first of today, now), user u2 may have reviewed card c2 today; or   *)
(* u1 has reviewed c1 ten times today.  One request asks for the figures,  *)
(* a second one reviews c1 meanwhile.                                      *)
(***************************************************************************)
NoQuality == 0 - 1

StatsQualities == {2, 5}

StatsInstants ==
    << (0 - 7) * TicksPerDay + TicksPerDay - 1, (0 - 6) * TicksPerDay,
       0 - 1, 0, TicksPerDay - 1 >>

\* the ten reviews of one day, by their qualities
TenReviews == <<0, 1, 2, 3, 4, 5, 3, 2, 5, 4>>

StatsHistories ==
    { LET mine(k) == IF quality[k] = NoQuality THEN <<>>
                     ELSE << [ quality |-> quality[k], at |-> StatsInstants[k],
                               sessionId |-> "s1", cardId |-> "c1" ] >>
          theirs == IF other
                    THEN << [ quality |-> 5, at |-> 0, sessionId |-> "s2", cardId |-> "c2" ] >>
                    ELSE <<>>
      IN  mine(1) \o mine(2) \o mine(3) \o mine(4) \o theirs \o mine(5) :
        quality \in [ 1..5 -> StatsQualities \cup {NoQuality} ], other \in BOOLEAN }
    \cup { [ n \in 1..Len(TenReviews) |->
               [ quality |-> TenReviews[n], at |-> 0, sessionId |-> "s1", cardId |-> "c1" ] ] }

InitStats ==
    /\ decks = [ d \in DeckIds |->
                   IF d = "d1" THEN [ exists |-> TRUE, userId |-> "u1", parentId |-> NoDeck ]
                   ELSE IF d = "d2" THEN [ exists |-> TRUE, userId |-> "u2", parentId |-> NoDeck ]
                   ELSE [ exists |-> FALSE, userId |-> "u1", parentId |-> NoDeck ] ]
    /\ \E history \in StatsHistories :
         /\ reviews = HistoryRows(history)
         /\ cards = [ c \in CardIds |->
                        IF c \in {"c1", "c2"} THEN HistoryCard(c, history, Len(history))
                        ELSE NoCard ]
    /\ sessions = [ s \in SessionIds |->
                      [ exists |-> TRUE, userId |-> IF s = "s1" THEN "u1" ELSE "u2",
                        deckId |-> IF s = "s1" THEN "d1" ELSE "d2",
                        startedAt |-> (0 - 8) * TicksPerDay, endedAt |-> NullTime ] ]
    /\ now = TicksPerDay - 1
    /\ req = [ p \in ReqIds |-> IdleReq ]
    /\ sm2In = NoInput
    /\ sm2Out = NoResult
    /\ sm2Trail = <<>>
    /\ page = NoPage

\* u1 reviews c1 and passes, or fails
StatsReviewInputs == {"u1"} \X {"c1"} \X {"s1"} \X {0, 10}

NextStats ==
    \/ \E u \in UserIds : StartUserStats(1, u)
    \/ UserStatsCounts(1)
    \/ UserStatsReviewCounts(1)
    \/ UserStatsAggregate(1)
    \/ UserStatsSuccessful(1)
    \/ UserStatsStreaks(1)
    \/ UserStatsActivity(1)
    \/ \E in \in StatsReviewInputs : StartReview(2, in[1], in[2], in[3], in[4])
    \/ ReviewFind(2)
    \/ ReviewCreate(2)
    \/ ReviewUpdate(2)

SpecStats == InitStats /\ [][NextStats]_vars

(***************************************************************************)
(* The figures' contract.                                                  *)
(***************************************************************************)
\* no review was recorded since the store was set up: the history the
\* request saw is the history the table holds
FixedHistory == \A i \in 1..Len(reviews) : reviews[i].id < 0

\* the qualities of the user's reviews, oldest first
RECURSIVE QualitiesOfUser(_, _)
QualitiesOfUser(userId, n) ==
    IF n = 0 THEN <<>>
    ELSE QualitiesOfUser(userId, n - 1)
             \o (IF n \in ReviewsOfUser(userId) THEN <<reviews[n].quality>> ELSE <<>>)

ReviewsOnDay(userId, day) ==
    { i \in ReviewsOfUser(userId) : /\ reviews[i].reviewedAt >= day * TicksPerDay
                                    /\ reviews[i].reviewedAt < (day + 1) * TicksPerDay }

RetentionIsPercentage ==
    \A p \in ReqIds :
        StatsAnswered(p) => (req[p].stats.averageRetention >= 0
                             /\ req[p].stats.averageRetention <= 100)

StudyStatsAnswered(p) == req[p].op = "getStudyStats" /\ req[p].pc = "done"

\* C28 (the two streaks agree): for every history of the user and the same
\* current time, the streak GET /api/study/stats answers equals the
\* currentStreak GET /api/stats answers.
StreaksAgree ==
    \A p, r \in ReqIds :
        (StatsAnswered(p) /\ StudyStatsAnswered(r) /\ req[p].userId = req[r].userId)
            => req[r].stats.streak = req[p].stats.currentStreak

(***************************************************************************)
(* Reviews of different cards.                                             *)
(***************************************************************************)
\* the rows request p appended
RowsOf(p) == { i \in 1..Len(reviews) : reviews[i].id = p }

\* the card of review p and its one row are as a review of the card as
\* createCard made it leaves them, whatever else ran meanwhile
AsReviewedAlone(p) ==
    LET c == req[p].cardId
        after == AfterReview(Defaults, req[p].quality2)
    IN  /\ Scheduling(cards[c]) = after
        /\ Cardinality(RowsOf(p)) = 1
        /\ \A i \in RowsOf(p) :
             /\ reviews[i].cardId = c
             /\ reviews[i].quality = req[p].quality2 \div 2
             /\ reviews[i].previousInterval = Defaults.interval
             /\ reviews[i].previousEaseFactor = Defaults.easeFactor
             /\ reviews[i].newInterval = after.interval
             /\ reviews[i].newEaseFactor = after.easeFactor

\* C24 (cross-card independence): two reviewCard operations on two
\* different cards, however their steps interleave, end with the card
\* states and the review records of running them one after the other, in
\* either order: each card is as its own review alone leaves it, with its
\* one row; and no step of a review reads or writes another card than its
\* own.
CrossCardIndependence ==
    [][ /\ \A p \in ReqIds :
             (req'[p] # req[p] /\ req'[p].op = "reviewCard")
               => /\ \A c \in CardIds \ {req'[p].cardId} : cards'[c] = cards[c]
                  /\ req'[p].card # req[p].card => req'[p].card = cards[req'[p].cardId]
        /\ \A p, r \in ReqIds :
             (/\ p < r /\ ReviewOk(p)' /\ ReviewOk(r)'
              /\ req'[p].cardId # req'[r].cardId
              /\ \A x \in ReqIds \ {p, r} : req'[x].pc = "idle")
               => (AsReviewedAlone(p)' /\ AsReviewedAlone(r)' /\ Len(reviews') = 2)
      ]_vars

\* a review of c1 and a later-arrived review of c2 that overlapped: the row
\* of the second was appended first
CrossCardIndependenceWitness ==
    /\ ReviewOk(1) /\ ReviewOk(2)
    /\ req[1].cardId = "c1" /\ req[2].cardId = "c2"
    /\ Len(reviews) = 2 /\ reviews[1].id = 2 /\ reviews[2].id = 1
    /\ cards["c1"].repetitions = 0 /\ cards["c2"].repetitions = 1

(***************************************************************************)
(* Runs of successful reviews, with the requests made one after the other. *)
(***************************************************************************)
\* the number of reviews of quality 3 or more at the end of qs
RECURSIVE TrailingSuccesses(_)
TrailingSuccesses(qs) ==
    IF qs = <<>> THEN 0
    ELSE IF qs[Len(qs)] < 6 THEN 0
    ELSE 1 + TrailingSuccesses(SubSeq(qs, 1, Len(qs) - 1))

\* C25 (repetitions count the successes): with reviewCard and resetCard
\* executed one after the other, whenever none is in flight the card's
\* repetitions is the number of its reviews of quality 3 or more since the
\* latest of its last failed review, its last reset and its creation.
RepetitionsCountSuccesses ==
    InFlight = {} =>
        \A c \in {"c1"} :
            cards[c].repetitions =
                TrailingSuccesses(QualitiesFrom(c, LastReset(c, Cardinality(ReqIds)) + 1))

\* a success, a reset, a failure and two successes: repetitions 2
RepetitionsCountSuccessesWitness ==
    /\ InFlight = {}
    /\ LastReset("c1", Cardinality(ReqIds)) = 2
    /\ QualitiesFrom("c1", 1) = <<10, 0, 6, 10>>
    /\ cards["c1"].repetitions = 2

\* rows i and i + 1 are successive reviews of a run: both of quality 3 or
\* more, of the same card, with no reset of the card between them
InOneRun(i) ==
    /\ reviews[i].quality >= 3 /\ reviews[i + 1].quality >= 3
    /\ reviews[i].cardId = reviews[i + 1].cardId
    /\ LastReset(reviews[i].cardId, reviews[i + 1].id) < reviews[i].id

\* C26 (intervals along a run): with the requests made one after the other,
\* along a run of consecutive successful reviews of a card the interval
\* never decreases from one review to the next, and from the third
\* consecutive success on it increases; a review of quality below 3 brings
\* the interval back to 1.
IntervalMonotonicity ==
    /\ \A i \in 1..Len(reviews) : reviews[i].quality < 3 => reviews[i].newInterval = 1
    /\ \A i \in 1..(Len(reviews) - 1) :
         InOneRun(i) => reviews[i + 1].newInterval >= reviews[i].newInterval
    /\ \A i \in 1..(Len(reviews) - 2) :
         (InOneRun(i) /\ InOneRun(i + 1))
             => reviews[i + 2].newInterval > reviews[i + 1].newInterval

\* two failures bring the ease factor to its floor 1.3; three successes of
\* quality 3 then give the intervals 1, 6 and 8
IntervalMonotonicityWitness ==
    /\ InFlight = {}
    /\ Len(reviews) = 5
    /\ [ i \in 1..5 |-> reviews[i].quality ] = <<0, 0, 3, 3, 3>>
    /\ [ i \in 1..5 |-> reviews[i].newInterval ] = <<1, 1, 1, 6, 8>>
    /\ cards["c1"].easeFactor = MIN_EASE_FACTOR

(***************************************************************************)
(* No card comes back on the day it was failed.                            *)
(***************************************************************************)
\* C27 (returned cards are due): every card an answered getDueCards returns
\* has never been reviewed (lastReviewAt is null) or has its nextReviewAt
\* at or before the end of the current day; a card reviewed today with a
\* quality below 3 (repetitions 0, nextReviewAt tomorrow) is not returned
\* on the same day.
ReturnedCardsAreDue ==
    \A p \in ReqIds :
        DueAnswered(p) =>
            \A c \in Returned(p) :
                \/ cards[c].lastReviewAt = NullTime
                \/ cards[c].nextReviewAt <= EndOfDay(now)

(***************************************************************************)
(* The StudyPage of one browser tab.  The page loads the due cards and a   *)
(* session, shows the card at currentIndex, and on a rating sends the      *)
(* review and, after the last card, the end of the session.  A call of     *)
(* handleRate holds the values of the render it was made in; the server is *)
(* seen from the page only: a request sent is answered later, with success *)
(* or with an error.                                                       *)
(***************************************************************************)
MaxPageCards == 2    \* cards in the loaded due list
MaxRatings == 3      \* ratings that send a review in one behaviour

\* the qualities of the four rating buttons and keys
RatingQualities == {0, 2, 3, 5}

\* the lists getDueCards can answer the page with
PageDueLists == { SubSeq(<<"c1", "c2", "c3">>, 1, n) : n \in 0..MaxPageCards }

\* dueCards[currentIndex] is defined
HasCurrentCard == page.currentIndex < Len(page.dueCards)

\* const currentCard = dueCards[currentIndex]
currentCard == page.dueCards[page.currentIndex + 1]

\* loadStudySession up to its second await: the deck and the due cards have
\* arrived, and with cards the session is asked for
PageLoadCards(cardsData) ==
    /\ page.isLoading /\ page.dueCards = <<>> /\ page.sent = <<>>
    /\ page' = [ page EXCEPT
                   !.dueCards = cardsData,
                   !.isLoading = (cardsData # <<>>),
                   !.sent = IF cardsData = <<>> THEN @
                            ELSE Append(@, [ kind |-> "createSession", cardId |-> "c0",
                                             sessionId |-> "none", quality |-> 0 ]) ]
    /\ UNCHANGED <<storeVars, engineVars>>

\* study.createSession is answered: setSession, or the catch branch; then
\* setIsLoading(false)
PageLoadSession(ok) ==
    /\ page.isLoading /\ page.dueCards # <<>>
    /\ page' = [ page EXCEPT !.session = IF ok THEN "s1" ELSE @, !.isLoading = FALSE ]
    /\ UNCHANGED <<storeVars, engineVars>>

\* the space key (setIsFlipped(true)), or handleFlip on the F key or a click
PageFlip(toAnswer) ==
    /\ HasCurrentCard
    /\ page' = [ page EXCEPT !.isFlipped = IF toAnswer THEN TRUE ELSE ~@ ]
    /\ UNCHANGED <<storeVars, engineVars>>

\* a rating button (rendered when the answer shows) or a rating key (which
\* calls handleRate when isFlipped): handleRate up to its first await
PageRate(quality) ==
    /\ HasCurrentCard /\ page.isFlipped
    /\ page.session # "none"
    /\ Cardinality({ k \in 1..Len(page.sent) : page.sent[k].kind = "review" }) < MaxRatings
    /\ page' = [ page EXCEPT
                   !.calls = Append(@, [ pc |-> "review", cardId |-> currentCard,
                                         sessionId |-> page.session,
                                         currentIndex |-> page.currentIndex,
                                         quality |-> quality ]),
                   !.sent = Append(@, [ kind |-> "review", cardId |-> currentCard,
                                        sessionId |-> page.session, quality |-> quality ]) ]
    /\ UNCHANGED <<storeVars, engineVars>>

\* cardsApi.review is answered: the next card, or the end of the session is
\* sent; on an error, the catch branch
PageReviewAnswered(k, ok) ==
    /\ k \in 1..Len(page.calls) /\ page.calls[k].pc = "review"
    /\ IF ~ok
       THEN page' = [ page EXCEPT !.calls[k].pc = "done" ]
       ELSE IF page.calls[k].currentIndex < Len(page.dueCards) - 1
       THEN page' = [ page EXCEPT !.calls[k].pc = "done",
                                  !.currentIndex = @ + 1,
                                  !.isFlipped = FALSE ]
       ELSE page' = [ page EXCEPT
                        !.calls[k].pc = "endSession",
                        !.sent = Append(@, [ kind |-> "endSession", cardId |-> "c0",
                                             sessionId |-> page.calls[k].sessionId,
                                             quality |-> 0 ]) ]
    /\ UNCHANGED <<storeVars, engineVars>>

\* study.endSession is answered: setSession(null), or the catch branch
PageEndSessionAnswered(k, ok) ==
    /\ k \in 1..Len(page.calls) /\ page.calls[k].pc = "endSession"
    /\ page' = [ page EXCEPT !.calls[k].pc = "done",
                             !.session = IF ok THEN "none" ELSE @ ]
    /\ UNCHANGED <<storeVars, engineVars>>

NextPage ==
    \/ \E cardsData \in PageDueLists : PageLoadCards(cardsData)
    \/ \E ok \in BOOLEAN : PageLoadSession(ok)
    \/ \E toAnswer \in BOOLEAN : PageFlip(toAnswer)
    \/ \E quality \in RatingQualities : PageRate(quality)
    \/ \E k \in 1..MaxRatings, ok \in BOOLEAN : PageReviewAnswered(k, ok)
    \/ \E k \in 1..MaxRatings, ok \in BOOLEAN : PageEndSessionAnswered(k, ok)

SpecPage == Init /\ [][NextPage]_vars

\* the requests of one kind the page has sent, by their place in page.sent
SentOf(kind) == { k \in 1..Len(page.sent) : page.sent[k].kind = kind }

\* C30 (the study page sends each thing once): each card of the loaded due
\* list is submitted for review at most once, endSession is called at most
\* once, and no review is submitted with a session id for which endSession
\* has already been called.
SubmitsOnce ==
    /\ \A c \in CardIds :
         Cardinality({ k \in SentOf("review") : page.sent[k].cardId = c }) <= 1
    /\ Cardinality(SentOf("endSession")) <= 1
    /\ \A i \in SentOf("endSession"), k \in SentOf("review") :
         i < k => page.sent[k].sessionId # page.sent[i].sessionId

====
